---- MODULE Spec2Model ----
(***************************************************************************)
(* Decision core of the identity-sync operator: the shared log limiter     *)
(* (pkg/logging), the fanout observation and outcome policy, the condition *)
(* set (pkg/status) and the reconcile pass of the controller.              *)
(*                                                                         *)
(* Instants are integers (seconds); durations are integers (seconds).      *)
(***************************************************************************)
EXTENDS Integers, Sequences, FiniteSets, TLC

VARIABLES
    size,       \* Limiter.size
    entries,    \* Limiter.entries : fingerprint -> next-allowed instant
    mutex,      \* Limiter.mutex : the goroutine holding it, or Free
    call,       \* per goroutine: the Allow call it is executing
    watched,    \* history: the fingerprint whose history is recorded
    granted,    \* history: the arguments of the last grant to watched
    solo,       \* history: the table of a second limiter that receives only
                \* the calls made for watched
    obs,        \* the Observation of the fanout (of the last invocation)
    seen,       \* history: the Kind of every failure observed, in order
    decision,   \* the Decision taken (by the last invocation)
    cs,         \* the ConditionSet (of the last invocation)
    sets,       \* number of Set calls made on cs
    lastSet,    \* history: the arguments of the last Set call, the entry
                \* stored under its type before it, and Changed() before it
    identity,   \* the policy object as the API server stores it
    recorder,   \* whether the controller was given a metrics recorder
    clock,      \* the instant the last invocation started at
    passes,     \* number of Reconcile invocations that returned
    pass,       \* what the last invocation did: phase, patch, metrics, log
    ret,        \* what the last invocation returned to the host
    frame,      \* the locals of the invocation in progress (the objects it
                \* read, its reconcileContext, its position), or None
    attempts,   \* history: the targets handed to reconcileNamespace by the
                \* last invocation, in order, and what it answered
    cluster     \* the data of the source secret and, per target namespace,
                \* whether it has the service account and the data its copy
                \* of the secret holds

limVars == <<size, entries, mutex, call>>
histVars == <<watched, granted, solo>>
fanVars == <<obs, seen, decision>>
condVars == <<cs, sets, lastSet>>
recVars == <<identity, recorder, clock, passes, pass, ret, frame>>
tgtVars == <<attempts, cluster>>

\* What the steps of one component leave alone.
offLimiter == <<fanVars, condVars, recVars, tgtVars>>
offFanout == <<limVars, histVars, condVars, recVars, tgtVars>>
offCond == <<limVars, histVars, fanVars, recVars, tgtVars>>

vars == <<size, entries, mutex, call, watched, granted, solo,
          obs, seen, decision, cs, sets, lastSet,
          identity, recorder, clock, passes, pass, ret, frame, attempts,
          cluster>>

----------------------------------------------------------------------------
(* Bounds of the model *)

MaxTime == 2
MaxInterval == 2
MaxSize == 2
MaxTargets == 3
MaxSets == 2
MaxPasses == 3
MaxLogCalls == 3
MaxCount == 3
MaxSyncPasses == 3
MaxSampleSize == 2
MaxObserved == 4

(* Program constants *)

defaultSize == 10000

Fingerprints == {"a", "b", "c"}
Procs == {"g1", "g2"}
Times == 0..MaxTime
Intervals == (-1)..MaxInterval
Free == "free"
None == [none |-> TRUE]

----------------------------------------------------------------------------
(* pkg/logging: Limiter *)

\* NewLimiter: a non-positive size selects the default capacity.
NewLimiter(n) == IF n <= 0 THEN defaultSize ELSE n

\* Mutant: only a negative interval takes the early return.
AllowsWithoutStateNegativeOnly(interval) == interval < 0

\* Allow, first test: a non-positive interval returns true without locking.
AllowsWithoutState(interval) == interval <= 0

\* Mutant: the boundary instant counts as before.
BeforeOrAt(t, u) == t <= u

\* time.Time.Before
Before(t, u) == t < u

\* Mutant: any entry still in its window blocks, whatever its fingerprint.
BlockedByAny(e, fp, now) == \E f \in DOMAIN e : Before(now, e[f])

\* Mutant: a stored entry blocks whatever the instant of the call.
BlockedOnceStored(e, fp, now) == fp \in DOMAIN e

\* Allow, lookup: the fingerprint has an entry and now is before it.
Blocked(e, fp, now) == fp \in DOMAIN e /\ Before(now, e[fp])

\* Mutant: the instant of the grant is stored, without the interval.
StoreNow(e, fp, now, interval) ==
    [f \in DOMAIN e \cup {fp} |-> IF f = fp THEN now ELSE e[f]]

\* Allow, l.entries[fingerprint] = now.Add(interval)
Store(e, fp, now, interval) ==
    [f \in DOMAIN e \cup {fp} |-> IF f = fp THEN now + interval ELSE e[f]]

\* Mutant: one entry over the capacity is tolerated.
OverSizeByTwo(e, sz) == Cardinality(DOMAIN e) > sz + 1

\* Mutant: a table that has reached its capacity counts as over it.
OverSizeOrFull(e, sz) == Cardinality(DOMAIN e) >= sz

\* len(l.entries) > l.size, the guard of the prune call and of the eviction loop
OverSize(e, sz) == Cardinality(DOMAIN e) > sz

\* Mutant: an entry whose instant equals now is kept.
ExpiredStrictly(nextAllowed, now) == Before(nextAllowed, now)

\* prune, first loop: the test that deletes an entry
Expired(nextAllowed, now) == ~Before(now, nextAllowed)

\* prune, first loop as a whole
RemoveExpired(e, now) ==
    [f \in {g \in DOMAIN e : ~Expired(e[g], now)} |-> e[f]]

\* delete(l.entries, fp)
Delete(e, fp) == [f \in DOMAIN e \ {fp} |-> e[f]]

\* A goroutine that is not inside Allow.
Idle == [pc |-> "idle", fp |-> "", now |-> 0, interval |-> 0,
         ok |-> FALSE, nextAllowed |-> 0, res |-> FALSE]

\* The frame of one Allow call: its position, its arguments, the locals
\* nextAllowed, ok of the lookup, and the value it returns.
InCall(pcv, fp, now, interval, e, res) ==
    [pc |-> pcv, fp |-> fp, now |-> now, interval |-> interval,
     ok |-> fp \in DOMAIN e,
     nextAllowed |-> IF fp \in DOMAIN e THEN e[fp] ELSE 0,
     res |-> res]

\* Allow with interval <= 0: returns true, takes no lock, touches no state.
AllowNoState(p, fp, now, interval) ==
    /\ call[p].pc = "idle"
    /\ AllowsWithoutState(interval)
    /\ call' = [call EXCEPT ![p] = InCall("ret", fp, now, interval, << >>, TRUE)]
    /\ UNCHANGED <<size, entries, mutex>>

\* Mutant: a blocked call restarts the window of its fingerprint.
AllowEnterExtendingWindow(p, fp, now, interval) ==
    /\ call[p].pc = "idle"
    /\ ~AllowsWithoutState(interval)
    /\ mutex = Free
    /\ mutex' = p
    /\ entries' = Store(entries, fp, now, interval)
    /\ call' = [call EXCEPT ![p] =
          InCall(IF OverSize(entries', size) THEN "prune" ELSE "ret",
                 fp, now, interval, entries, ~Blocked(entries, fp, now))]
    /\ UNCHANGED size

\* Allow with interval > 0: Lock, lookup, and either return false or store and
\* test the size. The arguments were fixed by the caller before Lock.
AllowEnter(p, fp, now, interval) ==
    /\ call[p].pc = "idle"
    /\ ~AllowsWithoutState(interval)
    /\ mutex = Free
    /\ mutex' = p
    /\ IF Blocked(entries, fp, now)
       THEN /\ call' = [call EXCEPT ![p] = InCall("ret", fp, now, interval, entries, FALSE)]
            /\ UNCHANGED entries
       ELSE /\ entries' = Store(entries, fp, now, interval)
            /\ call' = [call EXCEPT ![p] =
                  InCall(IF OverSize(entries', size) THEN "prune" ELSE "ret",
                         fp, now, interval, entries, TRUE)]
    /\ UNCHANGED size

\* prune, first loop: every expired entry is deleted.
PruneExpired(p) ==
    /\ call[p].pc = "prune"
    /\ mutex = p
    /\ entries' = RemoveExpired(entries, call[p].now)
    /\ call' = [call EXCEPT ![p].pc =
                   IF OverSize(entries', size) THEN "evict" ELSE "ret"]
    /\ UNCHANGED <<size, mutex>>

\* prune, second loop, one iteration: the first key the map iteration yields
\* is deleted; Go leaves the iteration order unspecified.
EvictOne(p) ==
    /\ call[p].pc = "evict"
    /\ mutex = p
    /\ \E fp \in DOMAIN entries : entries' = Delete(entries, fp)
    /\ call' = [call EXCEPT ![p].pc =
                   IF OverSize(entries', size) THEN "evict" ELSE "ret"]
    /\ UNCHANGED <<size, mutex>>

\* return, with the deferred Unlock when the lock was taken.
AllowReturn(p) ==
    /\ call[p].pc = "ret"
    /\ call' = [call EXCEPT ![p] = Idle]
    /\ mutex' = IF mutex = p THEN Free ELSE mutex
    /\ UNCHANGED <<size, entries>>

\* No target namespace is being written.
NoTargets ==
    /\ attempts = << >>
    /\ cluster = None

\* No fanout is in progress.
NoFanout ==
    /\ obs = None
    /\ seen = << >>
    /\ decision = None

\* No condition set has been built.
NoConditionSet ==
    /\ cs = None
    /\ sets = 0
    /\ lastSet = None

\* No controller is running.
NoController ==
    /\ identity = None
    /\ recorder = FALSE
    /\ clock = 0
    /\ passes = 0
    /\ pass = None
    /\ ret = None
    /\ frame = None

\* No limiter has been built.
NoLimiter ==
    /\ size = 0
    /\ entries = << >>
    /\ mutex = Free
    /\ call = [p \in Procs |-> Idle]
    /\ watched = ""
    /\ granted = None
    /\ solo = << >>

LimiterInit ==
    /\ NoTargets
    /\ NoFanout
    /\ NoConditionSet
    /\ NoController
    /\ size \in {NewLimiter(n) : n \in 1..MaxSize}
    /\ entries = << >>
    /\ mutex = Free
    /\ call = [p \in Procs |-> Idle]
    /\ watched = ""
    /\ granted = None
    /\ solo = << >>

\* Two goroutines share a limiter built with a capacity of 1..MaxSize; no
\* history is recorded.  (The default capacity is built in SpecLimiterHist.)
LimiterNext ==
    \/ \E p \in Procs, fp \in Fingerprints, now \in Times, interval \in Intervals :
          AllowNoState(p, fp, now, interval) /\ UNCHANGED <<histVars, offLimiter>>
    \/ \E p \in Procs, fp \in Fingerprints, now \in Times, interval \in Intervals :
          AllowEnter(p, fp, now, interval) /\ UNCHANGED <<histVars, offLimiter>>
    \/ \E p \in Procs : PruneExpired(p) /\ UNCHANGED <<histVars, offLimiter>>
    \/ \E p \in Procs : EvictOne(p) /\ UNCHANGED <<histVars, offLimiter>>
    \/ \E p \in Procs : AllowReturn(p) /\ UNCHANGED <<histVars, offLimiter>>

SpecLimiter == LimiterInit /\ [][LimiterNext]_vars

----------------------------------------------------------------------------
(* The limiter with the history of one fingerprint recorded.  The calls are *)
(* made one after the other, in the order the mutex serialises them.        *)

\* The second limiter is given the call when it is made for watched.
\* It holds at most one entry, so it never prunes.
SoloStep(fp, now, interval) ==
    solo' = IF fp = watched /\ ~Blocked(solo, fp, now)
            THEN Store(solo, fp, now, interval) ELSE solo

\* A grant to watched is remembered.
GrantStep(fp, now, interval) ==
    granted' = IF fp = watched /\ ~Blocked(entries, fp, now)
               THEN [t0 |-> now, interval |-> interval] ELSE granted

Caller == "g1"

HistInit ==
    /\ NoTargets
    /\ NoFanout
    /\ NoConditionSet
    /\ NoController
    /\ size \in {NewLimiter(n) : n \in 0..MaxSize}
    /\ entries = << >>
    /\ mutex = Free
    /\ call = [p \in Procs |-> Idle]
    /\ watched \in Fingerprints
    /\ granted = None
    /\ solo = << >>

HistNext ==
    \/ \E fp \in Fingerprints, now \in Times, interval \in Intervals :
          AllowNoState(Caller, fp, now, interval) /\ UNCHANGED <<histVars, offLimiter>>
    \/ \E fp \in Fingerprints, now \in Times, interval \in Intervals :
          /\ AllowEnter(Caller, fp, now, interval)
          /\ SoloStep(fp, now, interval)
          /\ GrantStep(fp, now, interval)
          /\ UNCHANGED <<watched, offLimiter>>
    \/ PruneExpired(Caller) /\ UNCHANGED <<histVars, offLimiter>>
    \/ EvictOne(Caller) /\ UNCHANGED <<histVars, offLimiter>>
    \/ AllowReturn(Caller) /\ UNCHANGED <<histVars, offLimiter>>

SpecLimiterHist == HistInit /\ [][HistNext]_vars

----------------------------------------------------------------------------
(* Claims about the limiter *)

\* The step in which goroutine p enters Allow (its frame appears).
Enters(p) == call[p].pc = "idle" /\ call'[p].pc # "idle"

\* The call of the frame c falls inside the window of the last grant to
\* watched, made with the same interval.
InGrantedWindow(c) ==
    /\ c.fp = watched
    /\ c.interval > 0
    /\ granted # None
    /\ granted.interval = c.interval
    /\ granted.t0 <= c.now
    /\ c.now < granted.t0 + c.interval

\* C1 as claimed: once Allow(fp, t0, interval) has returned true, every later
\* Allow(fp, t, interval) with t0 <= t < t0 + interval returns false, for every
\* capacity and whatever calls for other fingerprints are made in between.
C1_BlockedInWindowAnyCapacity ==
    [][(Enters(Caller) /\ InGrantedWindow(call'[Caller]))
          => ~call'[Caller].res]_vars

\* C1 amended: the later call inside the window returns false provided the
\* entry of fp is still in the table, i.e. no prune has removed it since the
\* grant; this is always so when the capacity is at least the number of
\* fingerprints in use.
C1_BlockedInWindowWhileStored ==
    [][(/\ Enters(Caller)
        /\ InGrantedWindow(call'[Caller])
        /\ (watched \in DOMAIN entries \/ size >= Cardinality(Fingerprints)))
          => ~call'[Caller].res]_vars

C1_Witness ==
    LET c == call[Caller] IN
    /\ c.pc = "ret"
    /\ ~c.res
    /\ InGrantedWindow(c)
    /\ granted.t0 < c.now
    /\ Cardinality(DOMAIN entries) = size
    /\ Cardinality(DOMAIN entries) >= 2

\* What the limiter that only receives the calls for watched returns for the
\* call of frame c (evaluated on its table before the call).
SoloResult(c) == watched \notin DOMAIN solo \/ c.now >= solo[watched]

\* C2 as claimed: the results returned for a fingerprint are the same as in
\* the run from which the calls for another fingerprint are removed, for
\* every capacity.
C2_IndependentAnyCapacity ==
    [][(Enters(Caller) /\ call'[Caller].fp = watched /\ call'[Caller].interval > 0)
          => (call'[Caller].res = SoloResult(call'[Caller]))]_vars

\* C2 amended: the results for a fingerprint are the same as in the run with
\* the other fingerprints' calls removed whenever the capacity is at least the
\* number of distinct fingerprints, so that the table is never over capacity.
C2_IndependentWithinCapacity ==
    [][(/\ Enters(Caller)
        /\ call'[Caller].fp = watched
        /\ call'[Caller].interval > 0
        /\ size >= Cardinality(Fingerprints))
          => (call'[Caller].res = SoloResult(call'[Caller]))]_vars

C2_Witness ==
    LET c == call[Caller] IN
    /\ c.pc = "ret"
    /\ c.fp = watched
    /\ c.interval > 0
    /\ c.ok
    /\ c.res
    /\ size >= Cardinality(Fingerprints)
    /\ DOMAIN entries = Fingerprints
    /\ solo = [f \in {watched} |-> entries[watched]]

\* The result of a locked call: true exactly when the lookup found nothing
\* or now is at or after the stored instant.
GrantRule(c) == c.res = (~c.ok \/ c.now >= c.nextAllowed)

\* C3 as claimed: Allow with interval > 0 returns true whenever fp has no
\* entry or now is at or after the stored instant, and after that grant the
\* stored instant of fp is exactly now + interval.
C3_GrantRestartsWindow ==
    \A p \in Procs :
        LET c == call[p] IN
        (c.pc = "ret" /\ c.interval > 0)
            => /\ GrantRule(c)
               /\ c.res => /\ c.fp \in DOMAIN entries
                           /\ entries[c.fp] = c.now + c.interval

\* C3 amended: the grant rule holds at the closed boundary; the grant stores
\* exactly now + interval for fp, and when Allow returns that instant is
\* still the stored one unless the insertion pushed the table over capacity
\* and the eviction of the same call removed the entry of fp itself.
C3_GrantRestartsWindowUnlessEvicted ==
    \A p \in Procs :
        LET c == call[p] IN
        /\ (c.pc = "prune")
              => /\ c.fp \in DOMAIN entries
                 /\ entries[c.fp] = c.now + c.interval
        /\ (c.pc = "ret" /\ c.interval > 0)
              => /\ GrantRule(c)
                 /\ c.res => IF c.fp \in DOMAIN entries
                             THEN entries[c.fp] = c.now + c.interval
                             ELSE Cardinality(DOMAIN entries) = size

C3_Witness ==
    \E p \in Procs :
        LET c == call[p] IN
        /\ c.pc = "ret"
        /\ c.res
        /\ c.ok
        /\ c.now = c.nextAllowed
        /\ c.fp \in DOMAIN entries
        /\ entries[c.fp] = c.now + c.interval
        /\ c.interval < c.nextAllowed

\* C4: Allow with interval <= 0 returns true and leaves the table as it is:
\* neither the step that enters the call nor the step that returns from it
\* changes an entry or takes the lock.
C4_NonPositiveIntervalNoState ==
    [][\A p \in Procs :
          /\ (Enters(p) /\ call'[p].interval <= 0)
                => /\ call'[p].pc = "ret"
                   /\ call'[p].res
                   /\ entries' = entries
                   /\ mutex' = mutex
          /\ (call[p].interval <= 0 /\ call[p].pc # "idle" /\ call'[p] # call[p])
                => /\ call'[p].pc = "idle"
                   /\ entries' = entries
                   /\ mutex' = mutex]_vars

C4_Witness ==
    \E p \in Procs :
        /\ call[p].pc = "ret"
        /\ call[p].interval < 0
        /\ call[p].res
        /\ call[p].fp \notin DOMAIN entries
        /\ entries # << >>
        /\ mutex \in Procs \ {p}

\* C5: whenever no Allow call is inside its critical section, the table holds
\* at most size entries.
C5_SizeBound ==
    (mutex = Free) => Cardinality(DOMAIN entries) <= size

C5_Witness ==
    /\ mutex = Free
    /\ Cardinality(DOMAIN entries) = size
    /\ size < Cardinality(Fingerprints)
    /\ \E p \in Procs : call[p].pc = "ret"

\* C6: an entry is removed only while the table is over capacity; the first
\* loop of prune removes every entry whose instant is at or before now; an
\* entry whose instant is after now is removed only when no expired entry is
\* left and the table is still over capacity; an insertion that pushes the
\* table over capacity is followed by prune.
C6_PruneOrder ==
    [][/\ \A f \in DOMAIN entries \ DOMAIN entries' :
             /\ Cardinality(DOMAIN entries) > size
             /\ mutex \in Procs
             /\ (entries[f] > call[mutex].now)
                   => \A g \in DOMAIN entries : entries[g] > call[mutex].now
       /\ \A p \in Procs :
             /\ (call[p].pc = "prune" /\ call'[p].pc # "prune")
                   => \A g \in DOMAIN entries' : entries'[g] > call[p].now
             /\ (Enters(p) /\ mutex' = p /\ Cardinality(DOMAIN entries') > size)
                   => call'[p].pc = "prune"
             /\ (call'[p].pc \in {"prune", "evict"})
                   => Cardinality(DOMAIN entries') > size]_vars

C6_Witness ==
    \E p \in Procs :
        /\ call[p].pc = "evict"
        /\ Cardinality(DOMAIN entries) > size
        /\ \A g \in DOMAIN entries : entries[g] > call[p].now
        /\ \E g \in DOMAIN entries : entries[g] # call[p].now + call[p].interval


(***************************************************************************)
(* pkg/errclass: errors and their classification *)
(***************************************************************************)

NotFoundAsConfig == "NotFoundAsConfig"
NotFoundAsTransient == "NotFoundAsTransient"

KindTransient == "Transient"
KindTerminal == "Terminal"
KindConflict == "Conflict"
KindConfig == "Config"

\* An error value: the context sentinels errors.Is finds in its chain, the
\* apierrors predicates it satisfies, whether errors.As finds a StatusError
\* in it and that status' code, and its Error() text.
Error(msg, ctx, api, status, code) ==
    [msg |-> msg, ctx |-> ctx, api |-> api, status |-> status, code |-> code]

NoErr == [nil |-> TRUE]

ErrDeadline == Error("context deadline exceeded", {"DeadlineExceeded"}, {}, FALSE, 0)
ErrCanceled == Error("context canceled", {"Canceled"}, {}, FALSE, 0)
ErrConflict == Error("conflict", {}, {"IsConflict"}, TRUE, 409)
ErrForbidden == Error("forbidden", {}, {"IsForbidden"}, TRUE, 403)
ErrInvalid == Error("invalid", {}, {"IsInvalid"}, TRUE, 422)
ErrNotFound == Error("not found", {}, {"IsNotFound"}, TRUE, 404)
ErrUnavailable == Error("service unavailable", {}, {}, TRUE, 503)
ErrPlain == Error("boom", {}, {}, FALSE, 0)

ClassifyNotFoundAlwaysTransient(err, notFoundPolicy) ==
    IF err = NoErr THEN <<"", "">>
    ELSE IF "DeadlineExceeded" \in err.ctx THEN <<KindTransient, "Timeout">>
    ELSE IF "Canceled" \in err.ctx THEN <<KindTerminal, "Other">>
    ELSE IF "IsConflict" \in err.api THEN <<KindConflict, "Conflict">>
    ELSE IF "IsAlreadyExists" \in err.api THEN <<KindConflict, "Conflict">>
    ELSE IF {"IsForbidden", "IsUnauthorized"} \cap err.api # {}
         THEN <<KindConfig, "Forbidden">>
    ELSE IF "IsInvalid" \in err.api THEN <<KindConfig, "Invalid">>
    ELSE IF "IsNotFound" \in err.api
         THEN <<KindTransient, "NotFound">>
    ELSE IF {"IsTimeout", "IsServerTimeout", "IsTooManyRequests"} \cap err.api # {}
         THEN <<KindTransient, "Timeout">>
    ELSE IF "IsInternalError" \in err.api THEN <<KindTransient, "Other">>
    ELSE IF err.status /\ (err.code = 0 \/ (err.code >= 500 /\ err.code <= 599))
         THEN <<KindTransient, "Other">>
    ELSE <<KindTransient, "Other">>

ClassifyUnknownAsTerminal(err, notFoundPolicy) ==
    IF err = NoErr THEN <<"", "">>
    ELSE IF "DeadlineExceeded" \in err.ctx THEN <<KindTransient, "Timeout">>
    ELSE IF "Canceled" \in err.ctx THEN <<KindTerminal, "Other">>
    ELSE IF "IsConflict" \in err.api THEN <<KindConflict, "Conflict">>
    ELSE IF "IsAlreadyExists" \in err.api THEN <<KindConflict, "Conflict">>
    ELSE IF {"IsForbidden", "IsUnauthorized"} \cap err.api # {}
         THEN <<KindConfig, "Forbidden">>
    ELSE IF "IsInvalid" \in err.api THEN <<KindConfig, "Invalid">>
    ELSE IF "IsNotFound" \in err.api
         THEN IF notFoundPolicy = NotFoundAsTransient
              THEN <<KindTransient, "NotFound">>
              ELSE <<KindConfig, "NotFound">>
    ELSE IF {"IsTimeout", "IsServerTimeout", "IsTooManyRequests"} \cap err.api # {}
         THEN <<KindTransient, "Timeout">>
    ELSE IF "IsInternalError" \in err.api THEN <<KindTransient, "Other">>
    ELSE IF err.status /\ (err.code = 0 \/ (err.code >= 500 /\ err.code <= 599))
         THEN <<KindTransient, "Other">>
    ELSE <<KindTerminal, "Other">>

ClassifyError(err, notFoundPolicy) ==
    IF err = NoErr THEN <<"", "">>
    ELSE IF "DeadlineExceeded" \in err.ctx THEN <<KindTransient, "Timeout">>
    ELSE IF "Canceled" \in err.ctx THEN <<KindTerminal, "Other">>
    ELSE IF "IsConflict" \in err.api THEN <<KindConflict, "Conflict">>
    ELSE IF "IsAlreadyExists" \in err.api THEN <<KindConflict, "Conflict">>
    ELSE IF {"IsForbidden", "IsUnauthorized"} \cap err.api # {}
         THEN <<KindConfig, "Forbidden">>
    ELSE IF "IsInvalid" \in err.api THEN <<KindConfig, "Invalid">>
    ELSE IF "IsNotFound" \in err.api
         THEN IF notFoundPolicy = NotFoundAsTransient
              THEN <<KindTransient, "NotFound">>
              ELSE <<KindConfig, "NotFound">>
    ELSE IF {"IsTimeout", "IsServerTimeout", "IsTooManyRequests"} \cap err.api # {}
         THEN <<KindTransient, "Timeout">>
    ELSE IF "IsInternalError" \in err.api THEN <<KindTransient, "Other">>
    ELSE IF err.status /\ (err.code = 0 \/ (err.code >= 500 /\ err.code <= 599))
         THEN <<KindTransient, "Other">>
    ELSE <<KindTransient, "Other">>

(***************************************************************************)
(* pkg/result: Outcome, Reason, Decision *)
(***************************************************************************)

OutcomeSuccess == "success"
OutcomePartial == "partial"
OutcomeFailed == "failed"

ReasonUnknown == "Unknown"

Decision(outcome, reason, requeueAfter, msg, err) ==
    [Outcome |-> outcome, Reason |-> reason, RequeueAfter |-> requeueAfter,
     Msg |-> msg, Err |-> err]

(***************************************************************************)
(* internal/controller: Observation and Policy *)
(***************************************************************************)

TransientDelay == 120
PermanentDelay == 600
maxSample == 50

DefaultPolicy ==
    [TransientDelay |-> TransientDelay, PermanentDelay |-> PermanentDelay]

NewObservation(total, max) ==
    [Reasons |-> << >>, Samples |-> << >>, MaxSample |-> max, Success |-> 0,
     Failed |-> 0, Total |-> total, HasTransient |-> FALSE,
     HasPermanent |-> FALSE]

ObserveSuccessTwice(o) == [o EXCEPT !.Success = @ + 2]

ObserveSuccess(o) == [o EXCEPT !.Success = @ + 1]

RetriableKindTransientOnly(kind) == kind = KindTransient

RetriableKind(kind) == kind = KindTransient \/ kind = KindConflict

PermanentKind(kind) == kind = KindTerminal \/ kind = KindConfig

Increment(m, r) ==
    [x \in DOMAIN m \cup {r} |->
        IF x = r THEN (IF r \in DOMAIN m THEN m[r] ELSE 0) + 1 ELSE m[x]]

Sample(namespace, message, reason, kind) ==
    [Namespace |-> namespace, Message |-> message, Reason |-> reason,
     Kind |-> kind]

ObserveFailureSamplingAll(o, namespace, kind, reason, err) ==
    [o EXCEPT
        !.Failed = @ + 1,
        !.HasTransient = @ \/ RetriableKind(kind),
        !.HasPermanent = @ \/ PermanentKind(kind),
        !.Reasons = Increment(@, reason),
        !.Samples = Append(@, Sample(namespace,
                                     IF err # NoErr THEN err.msg ELSE "",
                                     reason, kind))]

ObserveFailure(o, namespace, kind, reason, err) ==
    [o EXCEPT
        !.Failed = @ + 1,
        !.HasTransient = @ \/ RetriableKind(kind),
        !.HasPermanent = @ \/ PermanentKind(kind),
        !.Reasons = Increment(@, reason),
        !.Samples = IF Len(@) < o.MaxSample
                    THEN Append(@, Sample(namespace,
                                          IF err # NoErr THEN err.msg ELSE "",
                                          reason, kind))
                    ELSE @]


ReasonCount(reason, count) == [Reason |-> reason, Count |-> count]

\* The entries come out of a map range: their order is not fixed, so the
\* result is kept as a set and ordered by SortInPlace.
ErrorReasonCounts(o) ==
    {ReasonCount(r, o.Reasons[r]) : r \in {x \in DOMAIN o.Reasons : o.Reasons[x] # 0}}

errReasonPriority(r) ==
    CASE r = "Invalid" -> 60
      [] r = "Forbidden" -> 50
      [] r = "NotFound" -> 40
      [] r = "Conflict" -> 30
      [] r = "Timeout" -> 20
      [] r = "Other" -> 10
      [] OTHER -> 0

\* Position of a reason's text in the byte-wise order of Go strings.
StringRank(r) ==
    CASE r = "" -> 0
      [] r = "Conflict" -> 1
      [] r = "Custom" -> 2
      [] r = "Forbidden" -> 3
      [] r = "Invalid" -> 4
      [] r = "NotFound" -> 5
      [] r = "Other" -> 6
      [] r = "Quota" -> 7
      [] r = "Timeout" -> 8

LessWithoutPriority(a, b) ==
    IF a.Count # b.Count THEN a.Count > b.Count
    ELSE StringRank(a.Reason) < StringRank(b.Reason)

\* The less function handed to sort.Slice.
Less(a, b) ==
    IF a.Count # b.Count THEN a.Count > b.Count
    ELSE IF errReasonPriority(a.Reason) # errReasonPriority(b.Reason)
         THEN errReasonPriority(a.Reason) > errReasonPriority(b.Reason)
    ELSE StringRank(a.Reason) < StringRank(b.Reason)

RECURSIVE SortInPlace(_)
SortInPlace(rc) ==
    IF rc = {} THEN << >>
    ELSE LET first == CHOOSE a \in rc : \A b \in rc \ {a} : Less(a, b)
         IN <<first>> \o SortInPlace(rc \ {first})

mapErrReasonToResultReason(reason) ==
    CASE reason = "NotFound" -> "NotFound"
      [] reason = "Forbidden" -> "Forbidden"
      [] reason = "Invalid" -> "InvalidSpec"
      [] reason = "Conflict" -> "Conflict"
      [] reason = "Timeout" -> "Timeout"
      [] reason = "Other" -> "APIServerError"
      [] OTHER -> ReasonUnknown

PrimaryReason(o) ==
    IF Cardinality(DOMAIN o.Reasons) = 0 THEN ReasonUnknown
    ELSE LET reasons == ErrorReasonCounts(o)
         IN IF reasons = {} THEN ReasonUnknown
            ELSE mapErrReasonToResultReason(SortInPlace(reasons)[1].Reason)

OutcomeFailedOnAnyFailure(o) ==
    IF o.Total = 0 THEN OutcomeSuccess
    ELSE IF o.Success = o.Total THEN OutcomeSuccess
    ELSE IF o.Failed > 0 THEN OutcomeFailed
    ELSE OutcomePartial

\* The switch of Decide.
OutcomeOf(o) ==
    IF o.Total = 0 THEN OutcomeSuccess
    ELSE IF o.Success = o.Total THEN OutcomeSuccess
    ELSE IF o.Success = 0 THEN OutcomeFailed
    ELSE OutcomePartial

\* Mutant: every failing pass is sent back after the permanent delay.
DecideWithPermanentDelay(p, o) ==
    Decision(OutcomeOf(o), PrimaryReason(o),
             IF OutcomeOf(o) # OutcomeSuccess THEN p.PermanentDelay ELSE 0,
             "", NoErr)

Decide(p, o) ==
    LET outcome == OutcomeOf(o)
    IN Decision(outcome, PrimaryReason(o),
                IF outcome # OutcomeSuccess
                THEN IF o.HasTransient THEN p.TransientDelay
                     ELSE p.PermanentDelay
                ELSE 0,
                "", NoErr)

(***************************************************************************)
(* internal/controller: reconcileIdentity, followed by Decide *)
(***************************************************************************)

\* What reconcileNamespace can return for one target.
TargetErrors ==
    {ErrDeadline, ErrCanceled, ErrConflict, ErrForbidden, ErrInvalid,
     ErrNotFound, ErrPlain}

\* Targets handled so far; the target handled next is this number plus one.
Observed(o) == o.Success + o.Failed

TargetSynced ==
    /\ obs # None
    /\ decision = None
    /\ Observed(obs) < obs.Total
    /\ obs' = ObserveSuccess(obs)
    /\ UNCHANGED <<seen, decision>>

TargetFailed(fanoutErr) ==
    /\ obs # None
    /\ decision = None
    /\ Observed(obs) < obs.Total
    /\ LET c == ClassifyError(fanoutErr, NotFoundAsTransient)
       IN /\ obs' = ObserveFailure(obs, Observed(obs) + 1, c[1], c[2], fanoutErr)
          /\ seen' = Append(seen, c[1])
    /\ UNCHANGED decision

DecideFanout ==
    /\ obs # None
    /\ decision = None
    /\ Observed(obs) = obs.Total
    /\ decision' = Decide(DefaultPolicy, obs)
    /\ UNCHANGED <<obs, seen>>

FanoutInit ==
    /\ NoTargets
    /\ NoLimiter
    /\ NoConditionSet
    /\ NoController
    /\ \E total \in 0..MaxTargets : obs = NewObservation(total, maxSample)
    /\ seen = << >>
    /\ decision = None

FanoutNext ==
    \/ TargetSynced /\ UNCHANGED offFanout
    \/ \E fanoutErr \in TargetErrors :
          TargetFailed(fanoutErr) /\ UNCHANGED offFanout
    \/ DecideFanout /\ UNCHANGED offFanout

SpecFanout == FanoutInit /\ [][FanoutNext]_vars

(***************************************************************************)
(* Claims about the fanout decision *)
(***************************************************************************)

\* C7: for every observation, the outcome Decide gives is Success when Total
\* is 0 or Success equals Total, Failed when Success is 0 and Total is
\* positive, Partial otherwise; the decision of the pass has that outcome.
C7_OutcomeClassification ==
    obs # None =>
        LET outcome == Decide(DefaultPolicy, obs).Outcome
        IN /\ (obs.Total = 0 \/ obs.Success = obs.Total)
                 => outcome = OutcomeSuccess
           /\ ~(obs.Total = 0 \/ obs.Success = obs.Total)
                 /\ (obs.Success = 0 /\ obs.Total > 0)
                 => outcome = OutcomeFailed
           /\ ~(obs.Total = 0 \/ obs.Success = obs.Total)
                 /\ ~(obs.Success = 0 /\ obs.Total > 0)
                 => outcome = OutcomePartial
           /\ decision # None => decision.Outcome = outcome

\* A pass that synced one target and failed on another has been decided.
C7_Witness ==
    /\ decision # None
    /\ obs.Success > 0
    /\ obs.Failed > 0
    /\ decision.Outcome = OutcomePartial

SeenKinds == {seen[i] : i \in DOMAIN seen}

\* C8: RequeueAfter is 0 on Success; otherwise it is TransientDelay when some
\* observed failure had Kind Transient or Conflict, whatever the Kinds of the
\* others, and PermanentDelay when every observed failure had Kind Terminal
\* or Config.
C8_RequeueDelay ==
    decision # None =>
        IF decision.Outcome = OutcomeSuccess
        THEN decision.RequeueAfter = 0
        ELSE /\ (SeenKinds \cap {KindTransient, KindConflict} # {})
                  => decision.RequeueAfter = DefaultPolicy.TransientDelay
             /\ (SeenKinds \subseteq {KindTerminal, KindConfig})
                  => decision.RequeueAfter = DefaultPolicy.PermanentDelay
             /\ decision.RequeueAfter = DefaultPolicy.PermanentDelay
                  => SeenKinds \subseteq {KindTerminal, KindConfig}

\* A pass whose failures were a Conflict and a Config one has been decided.
C8_Witness ==
    /\ decision # None
    /\ decision.Outcome # OutcomeSuccess
    /\ KindConflict \in SeenKinds
    /\ KindConfig \in SeenKinds
    /\ decision.RequeueAfter = DefaultPolicy.TransientDelay


(***************************************************************************)
(* pkg/status: ConditionSet *)
(***************************************************************************)

Condition(condType, status, reason, message, generation, transition) ==
    [Type |-> condType, Status |-> status, Reason |-> reason,
     Message |-> message, ObservedGeneration |-> generation,
     LastTransitionTime |-> transition]

\* A later element of the list overwrites an earlier one of the same type.
NewConditionSet(conditions, generation, reconcileTime) ==
    [original |-> conditions,
     conditions |->
        [t \in {conditions[i].Type : i \in DOMAIN conditions} |->
            LET last == CHOOSE i \in DOMAIN conditions :
                            /\ conditions[i].Type = t
                            /\ \A j \in DOMAIN conditions :
                                  conditions[j].Type = t => j <= i
            IN conditions[last]],
     reconcileTime |-> reconcileTime,
     observedGeneration |-> generation]

isSame(prev, next) ==
    /\ prev.Status = next.Status
    /\ prev.Reason = next.Reason
    /\ prev.Message = next.Message
    /\ prev.ObservedGeneration = next.ObservedGeneration

Put(c, condType, next) ==
    [c EXCEPT !.conditions =
        [t \in DOMAIN c.conditions \cup {condType} |->
            IF t = condType THEN next ELSE c.conditions[t]]]

SetAlwaysStores(c, condType, status, reason, message) ==
    Put(c, condType, Condition(condType, status, reason, message,
                               c.observedGeneration, c.reconcileTime))

SetKeepsTransitionTime(c, condType, status, reason, message) ==
    LET fresh == Condition(condType, status, reason, message,
                           c.observedGeneration, c.reconcileTime)
    IN IF condType \in DOMAIN c.conditions
       THEN LET prev == c.conditions[condType]
                next == [fresh EXCEPT !.LastTransitionTime =
                                          prev.LastTransitionTime]
            IN IF isSame(prev, next) THEN c ELSE Put(c, condType, next)
       ELSE Put(c, condType, fresh)

\* Mutant: any stored change carries the reconcile time, a change of the
\* message alone included.
SetStampsEveryChange(c, condType, status, reason, message) ==
    LET fresh == Condition(condType, status, reason, message,
                           c.observedGeneration, c.reconcileTime)
    IN IF condType \in DOMAIN c.conditions
          /\ isSame(c.conditions[condType], fresh)
       THEN c
       ELSE Put(c, condType, fresh)

Set(c, condType, status, reason, message) ==
    LET fresh == Condition(condType, status, reason, message,
                           c.observedGeneration, c.reconcileTime)
    IN IF condType \in DOMAIN c.conditions
       THEN LET prev == c.conditions[condType]
                next == IF prev.Status = fresh.Status
                        THEN [fresh EXCEPT !.LastTransitionTime =
                                               prev.LastTransitionTime]
                        ELSE fresh
            IN IF isSame(prev, next) THEN c ELSE Put(c, condType, next)
       ELSE Put(c, condType, fresh)

IsConditionTrue(c, condType) ==
    IF condType \in DOMAIN c.conditions
    THEN c.conditions[condType].Status = "True"
    ELSE FALSE

\* Mutant: every condition set counts as changed.
ChangedAlways(c) == TRUE

Changed(c) ==
    IF Len(c.original) # Cardinality(DOMAIN c.conditions) THEN TRUE
    ELSE \E i \in DOMAIN c.original :
            \/ c.original[i].Type \notin DOMAIN c.conditions
            \/ ~isSame(c.original[i], c.conditions[c.original[i].Type])

(***************************************************************************)
(* A condition set built from a stored list and then written with Set *)
(***************************************************************************)

\* Set takes any string as condType, the empty one included.
CondTypes == {"", "Ready", "Degraded"}
Statuses == {"True", "False"}
CondReasons == {"Reconciled", "ReconcileError"}
CondMessages == {"", "fanout failed"}
Generations == {1, 2}
Instants == {0, 1}

\* Conditions a stored status can hold when the pass starts.
StoredConditions ==
    {Condition(t, s, "Reconciled", "", g, i) :
        t \in CondTypes, s \in Statuses, g \in Generations, i \in Instants}

StoredLists ==
    {<< >>} \cup {<<c>> : c \in StoredConditions}
            \cup {<<c, d>> : c \in StoredConditions, d \in StoredConditions}

SetCall(condType, status, reason, message) ==
    /\ cs # None
    /\ sets < MaxSets
    /\ cs' = Set(cs, condType, status, reason, message)
    /\ sets' = sets + 1
    /\ lastSet' = [Type |-> condType, Status |-> status, Reason |-> reason,
                   Message |-> message,
                   prev |-> IF condType \in DOMAIN cs.conditions
                            THEN cs.conditions[condType] ELSE None,
                   changed |-> Changed(cs)]

CondInit ==
    /\ NoTargets
    /\ NoLimiter
    /\ NoFanout
    /\ NoController
    /\ \E l \in StoredLists, g \in Generations : cs = NewConditionSet(l, g, 1)
    /\ sets = 0
    /\ lastSet = None

CondNext ==
    \E t \in CondTypes, s \in Statuses, r \in CondReasons, m \in CondMessages :
        SetCall(t, s, r, m) /\ UNCHANGED offCond

SpecCond == CondInit /\ [][CondNext]_vars

(***************************************************************************)
(* Claims about the condition set *)
(***************************************************************************)

\* The last Set call named an existing type and repeated its stored status,
\* reason and message, and the set's generation is the stored one.
RepeatsStored ==
    /\ lastSet # None
    /\ lastSet.prev # None
    /\ lastSet.prev.Status = lastSet.Status
    /\ lastSet.prev.Reason = lastSet.Reason
    /\ lastSet.prev.Message = lastSet.Message
    /\ lastSet.prev.ObservedGeneration = cs.observedGeneration

\* C10: a Set call that repeats the stored status, reason and message of an
\* existing type, while the set's generation is the stored ObservedGeneration,
\* leaves the stored entry as it was, LastTransitionTime included, and leaves
\* the value of Changed() as it was.
C10_SetIdenticalIsNoOp ==
    RepeatsStored =>
        /\ lastSet.Type \in DOMAIN cs.conditions
        /\ cs.conditions[lastSet.Type] = lastSet.prev
        /\ Changed(cs) = lastSet.changed

\* An identical Set was made on an entry whose transition time is older than
\* the pass.
C10_Witness ==
    /\ RepeatsStored
    /\ lastSet.prev.LastTransitionTime # cs.reconcileTime
    /\ ~lastSet.changed


\* C11: after a Set the entry of the type carries the status, reason and
\* message given and the set's generation; its LastTransitionTime is the one
\* stored before when the type existed with the same status, and the set's
\* reconcile time when the status differs or the type was not present.
C11_TransitionTimeRule ==
    lastSet # None =>
        /\ lastSet.Type \in DOMAIN cs.conditions
        /\ LET e == cs.conditions[lastSet.Type]
           IN /\ e.Status = lastSet.Status
              /\ e.Reason = lastSet.Reason
              /\ e.Message = lastSet.Message
              /\ e.ObservedGeneration = cs.observedGeneration
              /\ e.LastTransitionTime =
                    IF lastSet.prev # None
                       /\ lastSet.prev.Status = lastSet.Status
                    THEN lastSet.prev.LastTransitionTime
                    ELSE cs.reconcileTime

\* A Set changed the status of an entry whose transition time was older than
\* the pass.
C11_Witness ==
    /\ lastSet # None
    /\ lastSet.prev # None
    /\ lastSet.prev.Status # lastSet.Status
    /\ lastSet.prev.LastTransitionTime # cs.reconcileTime
    /\ cs.conditions[lastSet.Type].LastTransitionTime = cs.reconcileTime

\* The original list read as a snapshot by Type: one entry per Type.
OriginalByType(c) ==
    NewConditionSet(c.original, c.observedGeneration, c.reconcileTime).conditions

\* The live set and the snapshot differ in cardinality, or a Type of both
\* differs on Status, Reason, Message or ObservedGeneration.
DiffersFromSnapshot(c) ==
    LET snapshot == OriginalByType(c)
        live == c.conditions
    IN \/ Cardinality(DOMAIN live) # Cardinality(DOMAIN snapshot)
       \/ \E t \in DOMAIN live \cap DOMAIN snapshot :
             \/ snapshot[t].Status # live[t].Status
             \/ snapshot[t].Reason # live[t].Reason
             \/ snapshot[t].Message # live[t].Message
             \/ snapshot[t].ObservedGeneration # live[t].ObservedGeneration

DistinctTypes(conditions) ==
    \A i, j \in DOMAIN conditions :
        conditions[i].Type = conditions[j].Type => i = j

\* C12: Changed() is true exactly when the live set differs from the snapshot
\* of the original list in cardinality or in the Status, Reason, Message or
\* ObservedGeneration of a common Type; and for any list given to
\* NewConditionSet, Changed() is false while no Set call has been made.
C12_ChangedIffDiffers ==
    /\ Changed(cs) <=> DiffersFromSnapshot(cs)
    /\ sets = 0 => ~Changed(cs)

\* C12, for an original list that names no Type twice: Changed() is true
\* exactly when the live set differs from the list in length or in one of the
\* four compared fields, and is false before the first Set.
C12_ChangedOnDistinctTypes ==
    DistinctTypes(cs.original) =>
        /\ Changed(cs) <=> DiffersFromSnapshot(cs)
        /\ sets = 0 => ~Changed(cs)

\* A set built from a list that names a Type twice reports a change before
\* any Set call.
C12_DuplicateTypeChanged ==
    /\ sets = 0
    /\ ~DistinctTypes(cs.original)
    /\ Changed(cs)
    /\ ~DiffersFromSnapshot(cs)

(***************************************************************************)
(* internal/controller: conditions written by a pass, and the fast path *)
(***************************************************************************)

PhasePrecondition == "precondition"
PhaseFanout == "fanout"

ConditionReady == "Ready"
ConditionDegraded == "Degraded"
ConditionReferenceSecretReady == "ReferenceSecretReady"

markReady(c, message) ==
    Set(Set(c, ConditionReady, "True", "Reconciled", message),
        ConditionDegraded, "False", "Reconciled", message)

\* Mutant: a failing pass raises Degraded and leaves Ready as it was.
markDegradedKeepingReady(c, message) ==
    Set(c, ConditionDegraded, "True", "ReconcileError", message)

markDegraded(c, message) ==
    Set(Set(c, ConditionReady, "False", "ReconcileError", message),
        ConditionDegraded, "True", "ReconcileError", message)

markSecretAvailable(c, message) ==
    Set(c, ConditionReferenceSecretReady, "True", "SecretAvailable", message)

markSecretNotFound(c, message) ==
    Set(c, ConditionReferenceSecretReady, "False", "SecretNotFound", message)

\* ReasonSecretGetFailed has the text "SecretAvailable".
markSecretGetFailed(c, message) ==
    Set(c, ConditionReferenceSecretReady, "False", "SecretAvailable", message)

\* Index of the first condition of the type in the list, 0 when there is none.
IndexOfType(conditions, condType) ==
    IF \E i \in DOMAIN conditions : conditions[i].Type = condType
    THEN CHOOSE i \in DOMAIN conditions :
            /\ conditions[i].Type = condType
            /\ \A j \in DOMAIN conditions :
                  conditions[j].Type = condType => i <= j
    ELSE 0

isEqualAnyGeneration(conditions, condType, condStatus, generation) ==
    LET i == IndexOfType(conditions, condType)
    IN IF i = 0 THEN FALSE
       ELSE conditions[i].Status = condStatus

isCurrentAndEqual(conditions, condType, condStatus, generation) ==
    LET i == IndexOfType(conditions, condType)
    IN IF i = 0 THEN FALSE
       ELSE /\ conditions[i].Status = condStatus
            /\ conditions[i].ObservedGeneration = generation

shouldFastPathNever(id, currentSecretHash) == FALSE

shouldFastPath(id, currentSecretHash) ==
    IF ~isCurrentAndEqual(id.Conditions, ConditionReady, "True", id.Generation)
    THEN FALSE
    ELSE IF ~isCurrentAndEqual(id.Conditions, ConditionDegraded, "False",
                               id.Generation)
    THEN FALSE
    ELSE IF ~isCurrentAndEqual(id.Conditions, ConditionReferenceSecretReady,
                               "True", id.Generation)
    THEN FALSE
    ELSE IF id.ObservedSourceSecretHash # currentSecretHash THEN FALSE
    ELSE TRUE

\* Position of a condition type's text in the byte-wise order of Go strings.
TypeRank(t) ==
    CASE t = "" -> 0
      [] t = "Degraded" -> 1
      [] t = "Ready" -> 2
      [] t = "ReferenceSecretReady" -> 3

RECURSIVE SortByType(_)
SortByType(conds) ==
    IF conds = {} THEN << >>
    ELSE LET first == CHOOSE c \in conds :
                        \A d \in conds : TypeRank(c.Type) <= TypeRank(d.Type)
         IN <<first>> \o SortByType(conds \ {first})

RECURSIVE SortByTypeDescending(_)
SortByTypeDescending(conds) ==
    IF conds = {} THEN << >>
    ELSE LET first == CHOOSE c \in conds :
                        \A d \in conds : TypeRank(c.Type) >= TypeRank(d.Type)
         IN <<first>> \o SortByTypeDescending(conds \ {first})

ConditionsDescending(c) ==
    SortByTypeDescending({c.conditions[t] : t \in DOMAIN c.conditions})

Conditions(c) == SortByType({c.conditions[t] : t \in DOMAIN c.conditions})

\* Byte order of the condition types, smaller first.
TypeBefore ==
    {<<"", "Degraded">>, <<"", "Ready">>, <<"", "ReferenceSecretReady">>,
     <<"Degraded", "Ready">>, <<"Degraded", "ReferenceSecretReady">>,
     <<"Ready", "ReferenceSecretReady">>}

\* Conditions() of c holds the live entry of every Type of the live set, once
\* each, in strictly ascending order of Type.
ListedOncePerTypeAscending(c) ==
    LET out == Conditions(c)
    IN /\ Len(out) = Cardinality(DOMAIN c.conditions)
       /\ \A t \in DOMAIN c.conditions :
             Cardinality({i \in DOMAIN out : out[i].Type = t}) = 1
       /\ \A i \in DOMAIN out :
             /\ out[i].Type \in DOMAIN c.conditions
             /\ out[i] = c.conditions[out[i].Type]
       /\ \A i \in 1..(Len(out) - 1) :
             <<out[i].Type, out[i + 1].Type>> \in TypeBefore

\* The Types Conditions() of c lists.
ListedTypes(c) == {Conditions(c)[i].Type : i \in DOMAIN Conditions(c)}

\* C13, as stated: after any sequence of Set calls Conditions() holds exactly
\* one entry per Type of the live set, in strictly ascending order of Type,
\* and no entry with an empty Type.
C13_ConditionsWithoutEmptyType ==
    cs # None =>
        /\ ListedOncePerTypeAscending(cs)
        /\ "" \notin ListedTypes(cs)

\* C13, amended: after any sequence of Set calls Conditions() holds exactly
\* one entry per Type of the live set, in strictly ascending order of Type;
\* the Types it lists are those of the list the set was built from and those
\* named in the Set calls, no other.  So it holds an entry with an empty Type
\* exactly when the empty Type was in the stored list or was given to Set.
C13_ConditionsSortedOnePerType ==
    [][/\ ListedOncePerTypeAscending(cs)
       /\ ListedOncePerTypeAscending(cs')
       /\ sets = 0 =>
             ListedTypes(cs) = {cs.original[i].Type : i \in DOMAIN cs.original}
       /\ ListedTypes(cs') = ListedTypes(cs) \cup {lastSet'.Type}]_vars

\* Ready was stored; Degraded was set and then the empty Type: the three are
\* listed with the empty Type first, then Degraded, then Ready.
C13_Witness ==
    /\ cs # None
    /\ sets = 2
    /\ lastSet # None
    /\ lastSet.Type = ""
    /\ lastSet.prev = None
    /\ Len(cs.original) = 1
    /\ cs.original[1].Type = "Ready"
    /\ Len(Conditions(cs)) = 3
    /\ Conditions(cs)[1].Type = ""
    /\ Conditions(cs)[2].Type = "Degraded"
    /\ Conditions(cs)[3].Type = "Ready"

\* meta.SetStatusCondition: a new type is appended; an existing entry takes
\* the new status and transition time when the status differs, and always the
\* new reason, message and observed generation.
SetStatusCondition(conditions, new) ==
    LET i == IndexOfType(conditions, new.Type)
    IN IF i = 0 THEN Append(conditions, new)
       ELSE LET e == conditions[i]
                f == IF e.Status # new.Status
                     THEN [e EXCEPT !.Status = new.Status,
                                    !.LastTransitionTime = new.LastTransitionTime]
                     ELSE e
            IN [conditions EXCEPT ![i] =
                   [f EXCEPT !.Reason = new.Reason,
                             !.Message = new.Message,
                             !.ObservedGeneration = new.ObservedGeneration]]

RECURSIVE SetStatusConditions(_, _)
SetStatusConditions(conditions, news) ==
    IF news = << >> THEN conditions
    ELSE SetStatusConditions(SetStatusCondition(conditions, Head(news)),
                             Tail(news))

\* The error patchStatusIfChanged returns: the patch error wrapped with %w,
\* so the chain still answers errors.Is and the apierrors predicates.
WrapPatchError(err) ==
    LET c == ClassifyError(err, NotFoundAsTransient)
    IN [err EXCEPT !.msg = "status patch failed (" \o c[1] \o "/" \o c[2]
                           \o "): " \o err.msg]

PatchedConditionsOnly(id, c, desiredHash, hashChanged) ==
    [id EXCEPT
        !.Conditions = IF c # None
                       THEN SetStatusConditions(@, Conditions(c))
                       ELSE @]

\* The stored object after a successful Patch of the conditions of c and of
\* the hash when it changed.
\* Mutant: the stored fingerprint is set to desiredHash by every patch, which
\* clears it when the pass did not succeed.
PatchedIdentityClearingHash(id, c, desiredHash, hashChanged) ==
    [id EXCEPT
        !.ObservedSourceSecretHash = desiredHash,
        !.Conditions = IF c # None
                       THEN SetStatusConditions(@, Conditions(c))
                       ELSE @]

PatchedIdentity(id, c, desiredHash, hashChanged) ==
    [id EXCEPT
        !.ObservedSourceSecretHash = IF hashChanged THEN desiredHash ELSE @,
        !.Conditions = IF c # None
                       THEN SetStatusConditions(@, Conditions(c))
                       ELSE @]

patchStatusOnConditionsOnly(id, c, desiredHash, patchErr) ==
    LET condChanged == c # None /\ Changed(c)
    IN IF ~condChanged
       THEN [patched |-> FALSE, issued |-> FALSE, err |-> NoErr,
             identity |-> id]
       ELSE IF patchErr # NoErr
       THEN [patched |-> FALSE, issued |-> TRUE,
             err |-> WrapPatchError(patchErr), identity |-> id]
       ELSE [patched |-> TRUE, issued |-> TRUE, err |-> NoErr,
             identity |-> PatchedIdentity(id, c, desiredHash, FALSE)]

patchStatusSwallowingError(id, c, desiredHash, patchErr) ==
    LET condChanged == c # None /\ Changed(c)
        hashChanged == /\ desiredHash # ""
                       /\ id.ObservedSourceSecretHash # desiredHash
    IN IF ~condChanged /\ ~hashChanged
       THEN [patched |-> FALSE, issued |-> FALSE, err |-> NoErr,
             identity |-> id]
       ELSE IF patchErr # NoErr
       THEN [patched |-> FALSE, issued |-> TRUE, err |-> NoErr,
             identity |-> id]
       ELSE [patched |-> TRUE, issued |-> TRUE, err |-> NoErr,
             identity |-> PatchedIdentity(id, c, desiredHash, hashChanged)]

\* patchErr is what the Patch call answers when it is made; issued tells
\* whether it was made.
patchStatusIfChanged(id, c, desiredHash, patchErr) ==
    LET condChanged == c # None /\ Changed(c)
        hashChanged == /\ desiredHash # ""
                       /\ id.ObservedSourceSecretHash # desiredHash
    IN IF ~condChanged /\ ~hashChanged
       THEN [patched |-> FALSE, issued |-> FALSE, err |-> NoErr,
             identity |-> id]
       ELSE IF patchErr # NoErr
       THEN [patched |-> FALSE, issued |-> TRUE,
             err |-> WrapPatchError(patchErr), identity |-> id]
       ELSE [patched |-> TRUE, issued |-> TRUE, err |-> NoErr,
             identity |-> PatchedIdentity(id, c, desiredHash, hashChanged)]


(***************************************************************************)
(* internal/controller: logOperationIfAllowed *)
(***************************************************************************)

ChangeInterval == 30
maxSamples == 3

reminderInterval(r) ==
    CASE r = "NotFound" -> 1200
      [] r \in {"Forbidden", "InvalidSpec"} -> 300
      [] r \in {"Timeout", "APIServerError", "Conflict"} -> 120
      [] OTHER -> 600

\* The loop of formatReasons over the sorted list: an entry whose Count is 0
\* is skipped, and a comma is written before an entry when something was
\* written before it.
RECURSIVE JoinReasons(_)
JoinReasons(rcs) ==
    IF rcs = << >> THEN ""
    ELSE LET front == JoinReasons(SubSeq(rcs, 1, Len(rcs) - 1))
             rc == rcs[Len(rcs)]
         IN IF rc.Count = 0 THEN front
            ELSE (IF front # "" THEN front \o "," ELSE "") \o rc.Reason

formatReasons(reasons) ==
    IF reasons = {} THEN "" ELSE JoinReasons(SortInPlace(reasons))

\* Position of a Kind's text in the byte-wise order of Go strings.
KindRank(k) ==
    CASE k = "" -> 0
      [] k = "Config" -> 1
      [] k = "Conflict" -> 2
      [] k = "Terminal" -> 3
      [] k = "Transient" -> 4

\* A sample key is the text "ns=N kind=K reason=R"; it is kept as the triple
\* <<N, K, R>>, ordered as the texts are (namespace names have one length).
KeyLess(a, b) ==
    IF a[1] # b[1] THEN a[1] < b[1]
    ELSE IF a[2] # b[2] THEN KindRank(a[2]) < KindRank(b[2])
    ELSE StringRank(a[3]) < StringRank(b[3])

RECURSIVE SortStrings(_)
SortStrings(keys) ==
    IF keys = {} THEN << >>
    ELSE LET first == CHOOSE a \in keys : \A b \in keys \ {a} : KeyLess(a, b)
         IN <<first>> \o SortStrings(keys \ {first})

buildSampleKeys(samples, max) ==
    IF max <= 0 \/ Len(samples) = 0 THEN << >>
    ELSE LET keys == SortStrings({<<samples[i].Namespace, samples[i].Kind,
                                    samples[i].Reason>> : i \in DOMAIN samples})
         IN IF Len(keys) > max THEN SubSeq(keys, 1, max) ELSE keys

\* cp := append([]string{}, items...); sort.Strings(cp): every item of the
\* list is kept, an item that comes twice comes twice in the copy.
RECURSIVE SortedCopy(_)
SortedCopy(items) ==
    IF items = << >> THEN << >>
    ELSE LET rest == SortedCopy(Tail(items))
             k == Cardinality({i \in DOMAIN rest : KeyLess(rest[i], Head(items))})
         IN SubSeq(rest, 1, k) \o <<Head(items)>> \o SubSeq(rest, k + 1, Len(rest))

\* The FNV-1a sum of the sorted copy, each item followed by a zero byte; the
\* sum is kept as the list it is taken over (two different lists are taken
\* to have different sums).
hashStrings(items) == [sum |-> TRUE, of |-> SortedCopy(items)]

\* The empty text a pass without observation uses in place of a sum.
NoHash == [sum |-> FALSE, of |-> << >>]

\* for len(l.entries) > l.size { delete one entry }: the tables the eviction
\* loop of prune can leave, any entry being the one deleted in each round.
RECURSIVE EvictUntilWithin(_, _)
EvictUntilWithin(e, sz) ==
    IF ~OverSize(e, sz) THEN {e}
    ELSE UNION {EvictUntilWithin(Delete(e, f), sz) : f \in DOMAIN e}

\* The results one Allow call can have from a table: what it returns and the
\* table it leaves (prune removes the expired entries, then evicts until the
\* table is within its size).
AllowOutcomes(e, sz, fp, now, interval) ==
    IF AllowsWithoutState(interval) THEN {[ok |-> TRUE, entries |-> e]}
    ELSE IF Blocked(e, fp, now) THEN {[ok |-> FALSE, entries |-> e]}
    ELSE LET stored == Store(e, fp, now, interval)
         IN IF ~OverSize(stored, sz) THEN {[ok |-> TRUE, entries |-> stored]}
            ELSE {[ok |-> TRUE, entries |-> kept] :
                     kept \in EvictUntilWithin(RemoveExpired(stored, now), sz)}

PolicyUID == "uid-1"

\* The line logFailure writes: Error for a failed pass, Info for a partial one.
logFailure(dec, tag) ==
    IF dec.Outcome = OutcomeFailed THEN [level |-> "error", tag |-> tag]
    ELSE IF dec.Outcome = OutcomePartial THEN [level |-> "info", tag |-> tag]
    ELSE None

\* primary: the decision's reason, Unknown when it has none.
primaryReason(dec) == IF dec.Reason = "" THEN ReasonUnknown ELSE dec.Reason

\* fpReminder, the text "fail|uid|phase|primary" kept as its fields.
reminderFingerprint(phase, dec) ==
    <<"fail", PolicyUID, phase, primaryReason(dec)>>

\* fpChange, the text "chg|uid|phase|outcome|reasonsKey|samplesHash" kept as
\* its fields.
changeFingerprint(phase, dec, o) ==
    LET reasonsKey == IF o # None
                      THEN formatReasons(ErrorReasonCounts(o)) ELSE ""
        samplesHash == IF o # None
                       THEN hashStrings(buildSampleKeys(o.Samples, maxSamples))
                       ELSE NoHash
    IN <<"chg", PolicyUID, phase, dec.Outcome, reasonsKey, samplesHash>>

\* Mutant: the change gate is never asked.
AsksChangeGateNever(reminderOk) == FALSE

\* Mutant: the change gate is asked whatever the reminder gate answered.
AsksChangeGateAlways(reminderOk) == TRUE

\* limiter.Allow(fpReminder, ...) || limiter.Allow(fpChange, ...): the second
\* call is made only when the first answers false.
AsksChangeGate(reminderOk) == ~reminderOk

logOperationWithoutSuccessReturn(sz, dec, statusPatched) ==
    IF statusPatched
    THEN [gated |-> FALSE, log |-> logFailure(dec, "transition")]
    ELSE IF sz = 0
    THEN [gated |-> FALSE, log |-> logFailure(dec, "reminder(no-limiter)")]
    ELSE [gated |-> TRUE, log |-> None]

logOperationWithoutBypass(sz, dec, statusPatched) ==
    IF dec.Outcome = OutcomeSuccess THEN [gated |-> FALSE, log |-> None]
    ELSE IF sz = 0
    THEN [gated |-> FALSE, log |-> logFailure(dec, "reminder(no-limiter)")]
    ELSE [gated |-> TRUE, log |-> None]

\* logOperationIfAllowed up to its Allow calls: the line it writes without
\* asking the limiter (None for silence), or gated when the limiter is to be
\* asked.  sz = 0 stands for a nil limiter.
logOperationIfAllowed(sz, dec, statusPatched) ==
    IF dec.Outcome = OutcomeSuccess THEN [gated |-> FALSE, log |-> None]
    ELSE IF statusPatched
    THEN [gated |-> FALSE, log |-> logFailure(dec, "transition")]
    ELSE IF sz = 0
    THEN [gated |-> FALSE, log |-> logFailure(dec, "reminder(no-limiter)")]
    ELSE [gated |-> TRUE, log |-> None]

(***************************************************************************)
(* internal/controller: Reconcile and finish *)
(***************************************************************************)

SecretNotFoundDelay == 300

ResultWithoutRequeue(d) ==
    IF d.Err # NoErr THEN [RequeueAfter |-> 0, Err |-> d.Err]
    ELSE [RequeueAfter |-> 0, Err |-> NoErr]

Result(d) ==
    IF d.Err # NoErr THEN [RequeueAfter |-> 0, Err |-> d.Err]
    ELSE IF d.RequeueAfter > 0
    THEN [RequeueAfter |-> d.RequeueAfter, Err |-> NoErr]
    ELSE [RequeueAfter |-> 0, Err |-> NoErr]

\* Secret.Data: the values stored under the keys.
SecretDatas ==
    {[k \in {"a"} |-> "bc"], [k \in {"ab"} |-> "c"], [k \in {"a"} |-> "x"]}

\* Position of a key's text in the byte-wise order of Go strings.
KeyRank(k) ==
    CASE k = "a" -> 1
      [] k = "ab" -> 2

RECURSIVE HashStream(_, _)
HashStream(data, keys) ==
    IF keys = {} THEN ""
    ELSE LET k == CHOOSE x \in keys : \A y \in keys : KeyRank(x) <= KeyRank(y)
         IN k \o data[k] \o HashStream(data, keys \ {k})

\* The SHA-256 sum of the keys and values written in key order; the sum is
\* kept as the bytes it is taken over.
secretDataHash(data) == "sha256:" \o HashStream(data, DOMAIN data)

RECURSIVE ObserveAll(_, _, _)
ObserveAll(o, results, i) ==
    IF i > Len(results) THEN o
    ELSE LET c == ClassifyError(results[i], NotFoundAsTransient)
         IN ObserveAll(IF results[i] # NoErr
                       THEN ObserveFailure(o, i, c[1], c[2], results[i])
                       ELSE ObserveSuccess(o),
                       results, i + 1)

\* results[i] is what reconcileNamespace returns for the i-th target.
reconcileIdentity(results) ==
    ObserveAll(NewObservation(Len(results), maxSample), results, 1)

\* finish without the ReferenceSecretReady switch: only Ready and Degraded are
\* marked.
MarkedWithoutSecretCondition(c, phase, dec) ==
    IF dec.Outcome = OutcomeSuccess
    THEN markReady(c, "Reconcile completed")
    ELSE markDegraded(c, IF dec.Msg = "" THEN "Reconcile failed" ELSE dec.Msg)

\* The marks finish puts on the condition set.
Marked(c, phase, dec) ==
    LET secretMarked ==
            IF phase = PhasePrecondition
            THEN IF dec.Reason = "NotFound"
                 THEN markSecretNotFound(c, "Reference secret not found")
                 ELSE markSecretGetFailed(c, "Reference secret get failed")
            ELSE IF phase = PhaseFanout
            THEN markSecretAvailable(c, "Reference secret available")
            ELSE c
    IN IF dec.Outcome = OutcomeSuccess
       THEN markReady(secretMarked, "Reconcile completed")
       ELSE markDegraded(secretMarked,
                         IF dec.Msg = "" THEN "Reconcile failed" ELSE dec.Msg)

\* What finish delivers to the recorder, when the controller has one.
Metrics(dec, phase, o) ==
    [attempt |-> IF recorder
                 THEN [Outcome |-> dec.Outcome, Reason |-> dec.Reason,
                       Phase |-> phase]
                 ELSE None,
     fanout |-> IF recorder /\ o # None
                THEN [Total |-> o.Total, Success |-> o.Success,
                      Failed |-> o.Failed]
                ELSE None]

\* Seconds that can pass between two invocations.
Ticks == {0, 30, 1200}

\* What the Get of the policy, the Get of the secret and the status Patch can
\* answer.
PolicyGetErrors == {ErrUnavailable}
SecretGetErrors == {ErrForbidden}
PatchErrors == {NoErr, ErrConflict}

IsNotFound(err) == err # NoErr /\ "IsNotFound" \in err.api

\* Spec.TargetNamespaces of a policy: lists of namespaces in any order, no
\* namespace named twice (the field is declared listType=set).
TargetLists ==
    {l \in UNION {[1..n -> 1..MaxTargets] : n \in 0..MaxTargets} :
        \A i, j \in DOMAIN l : l[i] = l[j] => i = j}

\* What a target namespace can hold when a pass starts: nothing, or the
\* service account and the copy made of an earlier source.
NoCopy == [serviceAccount |-> FALSE, data |-> << >>]
StaleCopy == [serviceAccount |-> TRUE, data |-> [k \in {"a"} |-> "old"]]

\* What CreateOrPatch can answer for the service account and for the secret.
ServiceAccountErrors == {NoErr, ErrForbidden}
TargetSecretErrors == {NoErr, ErrConflict, ErrDeadline}

\* ensureServiceAccount and ensureSecret on the cluster cl, where saErr and
\* secretErr are what their CreateOrPatch answers; a call that answers an
\* error wrote nothing.  The data written is the data of the source secret as
\* the pass read it.
ensureServiceAccount(cl, namespace, saErr) ==
    [err |-> saErr,
     cluster |-> IF saErr # NoErr THEN cl
                 ELSE [cl EXCEPT !.target[namespace].serviceAccount = TRUE]]

ensureSecret(cl, namespace, sourceData, secretErr) ==
    [err |-> secretErr,
     cluster |-> IF secretErr # NoErr THEN cl
                 ELSE [cl EXCEPT !.target[namespace].data = sourceData]]

\* Mutant: the loop over the targets is left at the first failure.
NextTargetUntilFailure(targetNamespaces, tried) ==
    IF /\ Len(tried) < Len(targetNamespaces)
       /\ \A i \in DOMAIN tried : tried[i].Err = NoErr
    THEN Len(tried) + 1
    ELSE 0

\* The range loop of reconcileIdentity: the position of the entry handled
\* next after the entries tried, 0 when the list is exhausted.
NextTarget(targetNamespaces, tried) ==
    IF Len(tried) < Len(targetNamespaces) THEN Len(tried) + 1 ELSE 0

\* The decision Reconcile hands to finish after a fanout observed as o.
FanoutDecision(o) ==
    LET d == Decide(DefaultPolicy, o)
    IN [d EXCEPT !.Msg = IF d.Outcome = OutcomeSuccess THEN "fanout completed"
                         ELSE IF d.Outcome = OutcomePartial
                         THEN "partial fanout failure"
                         ELSE IF d.Outcome = OutcomeFailed THEN "fanout failed"
                         ELSE @]

\* The locals of an invocation that read the policy as id at the instant now:
\* the condition set is built, nothing else is known yet.
NewFrame(id, now) ==
    [pc |-> "secret", found |-> TRUE, identity |-> id, start |-> now,
     conditions |-> NewConditionSet(id.Conditions, id.Generation, now),
     secret |-> None, currentHash |-> "", phase |-> "", decision |-> None,
     observation |-> None, kinds |-> << >>, tried |-> << >>,
     patchIssued |-> FALSE, statusPatched |-> FALSE, attempt |-> None,
     fanout |-> None, reminderOk |-> FALSE, log |-> None, result |-> None]

\* The locals of an invocation whose Get of the policy answered an error.
NoPolicyFrame(now) ==
    [pc |-> "secret", found |-> FALSE, identity |-> None, start |-> now,
     conditions |-> None,
     secret |-> None, currentHash |-> "", phase |-> "", decision |-> None,
     observation |-> None, kinds |-> << >>, tried |-> << >>,
     patchIssued |-> FALSE, statusPatched |-> FALSE, attempt |-> None,
     fanout |-> None, reminderOk |-> FALSE, log |-> None, result |-> None]

\* The invocation has nothing left to do but return result.
Returning(f, result) == [f EXCEPT !.pc = "return", !.result = result]

\* The invocation hands its reconcileContext to finish.
Finishing(f, phase, dec) ==
    [f EXCEPT !.pc = "patch", !.phase = phase, !.decision = dec]

\* The loop of reconcileIdentity after an iteration: the next target, or the
\* observation is decided and handed to finish.
AfterAttempt(f) ==
    IF NextTarget(f.identity.TargetNamespaces, f.tried) # 0
    THEN [f EXCEPT !.pc = "serviceAccount"]
    ELSE Finishing(f, PhaseFanout, FanoutDecision(f.observation))

\* reconcileNamespace answered err for namespace: the loop observes it.
Attempted(f, namespace, err) ==
    LET c == ClassifyError(err, NotFoundAsTransient)
    IN AfterAttempt(
          [f EXCEPT
              !.tried = Append(@, [Namespace |-> namespace, Err |-> err]),
              !.observation = IF err # NoErr
                              THEN ObserveFailure(@, namespace, c[1], c[2], err)
                              ELSE ObserveSuccess(@),
              !.kinds = IF err # NoErr THEN Append(@, c[1]) ELSE @])

\* The source secret was read with data and the fast path was not taken:
\* reconcileIdentity is entered.
EnterFanout(f, data) ==
    AfterAttempt(
       [f EXCEPT !.secret = data,
                 !.currentHash = secretDataHash(data),
                 !.observation =
                     NewObservation(Len(f.identity.TargetNamespaces), maxSample)])

\* The merge patch built by client.MergeFrom(base) for the object modified,
\* applied by the API server to the object it stores: the status fields in
\* which modified differs from base are written (the list of conditions as a
\* whole), everything else is kept as stored.
MergeFrom(stored, base, modified) ==
    [stored EXCEPT
        !.ObservedSourceSecretHash =
            IF modified.ObservedSourceSecretHash # base.ObservedSourceSecretHash
            THEN modified.ObservedSourceSecretHash ELSE @,
        !.Conditions =
            IF modified.Conditions # base.Conditions
            THEN modified.Conditions ELSE @]

\* finish after its status patch: the metrics are delivered and
\* logOperationIfAllowed is called with the limiter of size sz; the
\* invocation returns the decision's result unless the limiter is to be asked.
AfterPatch(f, sz, issued, patched) ==
    LET m == Metrics(f.decision, f.phase, f.observation)
        l == logOperationIfAllowed(sz, f.decision, patched)
        g == [f EXCEPT !.patchIssued = issued, !.statusPatched = patched,
                       !.attempt = m.attempt, !.fanout = m.fanout]
    IN IF l.gated THEN [g EXCEPT !.pc = "reminder"]
       ELSE Returning([g EXCEPT !.log = l.log], Result(f.decision))

\* What an invocation did: whether it found the policy, the phase finish was
\* given, the fingerprint computed of the source secret, whether the status
\* Patch was issued and whether it succeeded, the metrics delivered and the
\* line logged.
PassRecord(f) ==
    [found |-> f.found, phase |-> f.phase, hash |-> f.currentHash,
     patchIssued |-> f.patchIssued, statusPatched |-> f.statusPatched,
     attempt |-> f.attempt, fanout |-> f.fanout, log |-> f.log]

\* Reconcile up to its Get of the policy, which answers err: the invocation
\* starts at the instant now; not-found and any other error end it.
ReconcileGetPolicy(now, err) ==
    /\ frame = None
    /\ identity # None
    /\ clock' = now
    /\ frame' = IF err = NoErr THEN NewFrame(identity, now)
                ELSE Returning(NoPolicyFrame(now),
                               [RequeueAfter |-> 0,
                                Err |-> IF IsNotFound(err) THEN NoErr ELSE err])
    /\ UNCHANGED <<limVars, histVars, fanVars, condVars, tgtVars>>
    /\ UNCHANGED <<identity, recorder, passes, pass, ret>>

\* Reconcile from its Get of the source secret to the call it makes next.
\* The Get answers secretErr, not-found when there is no source secret, or
\* the secret; on the secret the fast path is decided on the policy as read.
ReconcileGetSecret(secretErr) ==
    /\ frame # None
    /\ frame.pc = "secret"
    /\ cluster # None
    /\ \E got \in {IF secretErr # NoErr THEN secretErr
                   ELSE IF cluster.source = None THEN ErrNotFound
                   ELSE NoErr} :
          frame' =
             IF IsNotFound(got)
             THEN Finishing(frame, PhasePrecondition,
                     Decision(OutcomeFailed, "NotFound", SecretNotFoundDelay,
                              "reference secret not found", NoErr))
             ELSE IF got # NoErr
             THEN Finishing(frame, PhasePrecondition,
                     Decision(OutcomeFailed,
                              mapErrReasonToResultReason(
                                  ClassifyError(got, NotFoundAsTransient)[2]),
                              0, "failed reading reference secret", got))
             ELSE IF shouldFastPath(frame.identity,
                                    secretDataHash(cluster.source))
             THEN Returning([frame EXCEPT
                                !.secret = cluster.source,
                                !.currentHash = secretDataHash(cluster.source)],
                            [RequeueAfter |-> 0, Err |-> NoErr])
             ELSE EnterFanout(frame, cluster.source)
    /\ UNCHANGED <<limVars, histVars, fanVars, condVars, tgtVars>>
    /\ UNCHANGED <<identity, recorder, clock, passes, pass, ret>>

\* The target the loop of reconcileIdentity is at.
CurrentTarget(f) ==
    f.identity.TargetNamespaces[NextTarget(f.identity.TargetNamespaces, f.tried)]

\* reconcileNamespace, first call: ensureServiceAccount, whose CreateOrPatch
\* answers saErr; an error ends the iteration.
ReconcileNamespaceServiceAccount(saErr) ==
    /\ frame # None
    /\ frame.pc = "serviceAccount"
    /\ \E namespace \in {CurrentTarget(frame)} :
       \E r \in {ensureServiceAccount(cluster, namespace, saErr)} :
          /\ cluster' = r.cluster
          /\ frame' = IF r.err # NoErr THEN Attempted(frame, namespace, r.err)
                      ELSE [frame EXCEPT !.pc = "targetSecret"]
    /\ UNCHANGED <<limVars, histVars, fanVars, condVars, attempts>>
    /\ UNCHANGED <<identity, recorder, clock, passes, pass, ret>>

\* reconcileNamespace, second call: ensureSecret, whose CreateOrPatch answers
\* secretErr; the iteration ends.
ReconcileNamespaceSecret(secretErr) ==
    /\ frame # None
    /\ frame.pc = "targetSecret"
    /\ \E namespace \in {CurrentTarget(frame)} :
       \E r \in {ensureSecret(cluster, namespace, frame.secret, secretErr)} :
          /\ cluster' = r.cluster
          /\ frame' = Attempted(frame, namespace, r.err)
    /\ UNCHANGED <<limVars, histVars, fanVars, condVars, attempts>>
    /\ UNCHANGED <<identity, recorder, clock, passes, pass, ret>>

\* finish up to the point where the limiter is asked: the conditions are
\* marked, the status is patched when it changed (the Patch answers patchErr)
\* and, unless the patch failed, the metrics are delivered and the lines that
\* need no limiter are written.
finish(patchErr) ==
    /\ frame # None
    /\ frame.pc = "patch"
    /\ \E marked \in {Marked(frame.conditions, frame.phase, frame.decision)} :
       \E p \in {patchStatusIfChanged(frame.identity, marked,
                    IF frame.decision.Outcome = OutcomeSuccess
                    THEN frame.currentHash ELSE "",
                    patchErr)} :
          /\ identity' = IF p.patched
                         THEN MergeFrom(identity, frame.identity, p.identity)
                         ELSE identity
          /\ frame' =
                IF p.err # NoErr
                THEN Returning([frame EXCEPT !.conditions = marked,
                                             !.patchIssued = TRUE],
                               [RequeueAfter |-> 0, Err |-> p.err])
                ELSE AfterPatch([frame EXCEPT !.conditions = marked], size,
                                p.issued, p.patched)
    /\ UNCHANGED <<limVars, histVars, fanVars, condVars, tgtVars>>
    /\ UNCHANGED <<recorder, clock, passes, pass, ret>>

\* logOperationIfAllowed, first call of the limiter: Allow for the reminder
\* fingerprint, at the instant the call was entered.
AllowReminder ==
    /\ frame # None
    /\ frame.pc = "reminder"
    /\ \E a \in AllowOutcomes(entries, size,
                   reminderFingerprint(frame.phase, frame.decision), clock,
                   reminderInterval(primaryReason(frame.decision))) :
          /\ entries' = a.entries
          /\ frame' =
                IF AsksChangeGate(a.ok)
                THEN [frame EXCEPT !.pc = "change", !.reminderOk = a.ok]
                ELSE Returning(
                        [frame EXCEPT
                            !.reminderOk = a.ok,
                            !.log = IF a.ok
                                    THEN logFailure(frame.decision, "reminder")
                                    ELSE None],
                        Result(frame.decision))
    /\ UNCHANGED <<size, mutex, call, histVars, fanVars, condVars, tgtVars>>
    /\ UNCHANGED <<identity, recorder, clock, passes, pass, ret>>

\* logOperationIfAllowed, second call of the limiter: Allow for the change
\* fingerprint.
AllowChange ==
    /\ frame # None
    /\ frame.pc = "change"
    /\ \E b \in AllowOutcomes(entries, size,
                   changeFingerprint(frame.phase, frame.decision,
                                     frame.observation),
                   clock, ChangeInterval) :
          /\ entries' = b.entries
          /\ frame' = Returning(
                         [frame EXCEPT
                             !.log = IF frame.reminderOk \/ b.ok
                                     THEN logFailure(frame.decision, "reminder")
                                     ELSE None],
                         Result(frame.decision))
    /\ UNCHANGED <<size, mutex, call, histVars, fanVars, condVars, tgtVars>>
    /\ UNCHANGED <<identity, recorder, clock, passes, pass, ret>>

\* Reconcile returns to the host: the invocation is over.  What it decided,
\* observed, marked and attempted is kept as the history of the last
\* invocation.
ReconcileReturn ==
    /\ frame # None
    /\ frame.pc = "return"
    /\ passes' = passes + 1
    /\ pass' = PassRecord(frame)
    /\ ret' = frame.result
    /\ cs' = frame.conditions
    /\ decision' = frame.decision
    /\ obs' = frame.observation
    /\ seen' = frame.kinds
    /\ attempts' = frame.tried
    /\ frame' = None
    /\ UNCHANGED <<limVars, histVars, sets, lastSet>>
    /\ UNCHANGED <<identity, recorder, clock, cluster>>

\* The user edits the policy: the API server gives it the next generation.
PolicyEdited ==
    /\ identity # None
    /\ identity.Generation + 1 \in Generations
    /\ identity' = [identity EXCEPT !.Generation = @ + 1]
    /\ UNCHANGED <<limVars, histVars, fanVars, condVars, tgtVars>>
    /\ UNCHANGED <<recorder, clock, passes, pass, ret, frame>>

\* The source secret is edited, deleted or created again.
SourceChanged(data) ==
    /\ cluster # None
    /\ data # cluster.source
    /\ cluster' = [cluster EXCEPT !.source = data]
    /\ UNCHANGED <<limVars, histVars, fanVars, condVars, recVars, attempts>>

\* The content the source secret is created with and the content it is
\* edited to.
FirstSource == [k \in {"a"} |-> "bc"]
EditedSource == [k \in {"a"} |-> "x"]

\* Seconds between two invocations.
SyncTick == 30

\* What CreateOrPatch answers for the secret of a target in these passes.
SyncSecretErrors == {NoErr, ErrConflict}

\* Target lists of the policy: enough for a pass to be partial.
PolicyTargets == {<<1, 2>>}

\* The instants an invocation can start at after the one before it: at once
\* (a requeue or a watch event that was already waiting) or SyncTick later.
ReconcileTicks == {0, SyncTick}

\* Invocations start no later than this instant.
ReconcileHorizon == 30

\* The status a pass stores when it finds the source secret missing, here by a
\* pass of an earlier run at generation 1 and instant 0.
SecretNotFoundStatus ==
    Conditions(Marked(NewConditionSet(<< >>, 1, 0), PhasePrecondition,
                      Decision(OutcomeFailed, "NotFound", SecretNotFoundDelay,
                               "reference secret not found", NoErr)))

\* The status lists the policy can hold when the controller is constructed.
StatusAtStart == {<< >>, SecretNotFoundStatus}

\* A policy exists and the controller has just been constructed with a limiter
\* of the default size and maybe a recorder.  The policy is either new, with
\* an empty status, or carries the status an earlier run of the operator
\* stored when it found the source secret missing.  The source secret exists
\* and no target holds anything yet.
ReconcileInit ==
    /\ NoFanout
    /\ NoConditionSet
    /\ size = NewLimiter(0)
    /\ entries = << >>
    /\ mutex = Free
    /\ call = [p \in Procs |-> Idle]
    /\ watched = ""
    /\ granted = None
    /\ solo = << >>
    /\ \E l \in PolicyTargets, stored \in StatusAtStart :
          identity = [Generation |-> 1, Targets |-> Len(l),
                      TargetNamespaces |-> l, Conditions |-> stored,
                      ObservedSourceSecretHash |-> ""]
    /\ recorder \in BOOLEAN
    /\ clock = 0
    /\ passes = 0
    /\ pass = None
    /\ ret = None
    /\ frame = None
    /\ attempts = << >>
    /\ cluster = [source |-> FirstSource,
                  target |-> [namespace \in 1..MaxTargets |-> NoCopy]]

\* Invocations follow one another (the controller has one worker), each at
\* once or SyncTick seconds after the start of the one before; every Get can
\* answer an error.  The policy is edited and the source secret is edited,
\* once each, at any moment, also while an invocation runs.
ReconcileNext ==
    \/ \E err \in {NoErr, ErrNotFound} \cup PolicyGetErrors :
          /\ passes < MaxPasses
          /\ \E d \in ReconcileTicks :
                /\ clock + d <= ReconcileHorizon
                /\ ReconcileGetPolicy(clock + d, err)
    \/ \E secretErr \in {NoErr, ErrNotFound} \cup SecretGetErrors :
          ReconcileGetSecret(secretErr)
    \/ \E saErr \in ServiceAccountErrors :
          ReconcileNamespaceServiceAccount(saErr)
    \/ \E secretErr \in SyncSecretErrors :
          ReconcileNamespaceSecret(secretErr)
    \/ \E patchErr \in PatchErrors : finish(patchErr)
    \/ AllowReminder
    \/ AllowChange
    \/ ReconcileReturn
    \/ PolicyEdited
    \/ /\ cluster.source = FirstSource
       /\ SourceChanged(EditedSource)

SpecReconcile == ReconcileInit /\ [][ReconcileNext]_vars

(***************************************************************************)
(* Claims about the reconcile pass *)
(***************************************************************************)

\* C9: an invocation that found the policy and ended with an outcome other
\* than Success returned a positive RequeueAfter or an error, whatever the
\* Kinds of its failures; this holds after every sequence of invocations.
C9_NoGiveUpPath ==
    (pass # None /\ pass.found /\ decision # None
        /\ decision.Outcome # OutcomeSuccess)
    => (ret.RequeueAfter > 0 \/ ret.Err # NoErr)

\* The policy was left degraded by an earlier invocation, and one more
\* invocation failed on Config failures only and was sent back to the queue
\* with the long delay.
C9_Witness ==
    /\ frame = None
    /\ passes = MaxPasses
    /\ \E i \in DOMAIN identity.Conditions :
          /\ identity.Conditions[i].Type = ConditionDegraded
          /\ identity.Conditions[i].Status = "True"
          /\ identity.Conditions[i].LastTransitionTime < clock
    /\ pass # None /\ pass.found
    /\ decision # None
    /\ decision.Outcome = OutcomeFailed
    /\ seen # << >>
    /\ \A i \in DOMAIN seen : seen[i] = KindConfig
    /\ ret = [RequeueAfter |-> PermanentDelay, Err |-> NoErr]

\* A step in which an invocation runs finish up to its log call.
FinishStep == frame # None /\ frame.pc = "patch" /\ frame' # frame

\* A step in which an invocation returns to the host.
ReturnStep == frame # None /\ frame.pc = "return" /\ frame' = None

\* C14: in every pass the status patch is issued exactly when Changed() of
\* the pass's condition set is true or the pass ended in Success with a source
\* fingerprint other than the stored ObservedSourceSecretHash; when neither
\* holds the stored status is left as it was.  No other step of a pass writes
\* the stored status.
C14_PatchIffChangedOrNewHash ==
    [][/\ FinishStep =>
            /\ frame'.patchIssued <=>
                  \/ Changed(frame'.conditions)
                  \/ /\ frame.decision.Outcome = OutcomeSuccess
                     /\ frame.currentHash # identity.ObservedSourceSecretHash
            /\ ~frame'.patchIssued => identity' = identity
            /\ frame'.statusPatched => frame'.patchIssued
       /\ (\/ identity'.Conditions # identity.Conditions
           \/ identity'.ObservedSourceSecretHash
                 # identity.ObservedSourceSecretHash)
          => (FinishStep /\ frame'.statusPatched)
       /\ ReturnStep =>
            /\ pass'.patchIssued = frame.patchIssued
            /\ pass'.statusPatched = frame.statusPatched
            /\ identity' = identity]_vars

\* A pass succeeded on a changed source secret with conditions that were
\* already stored: the patch was issued for the fingerprint alone.
C14_Witness ==
    /\ frame = None
    /\ pass # None /\ pass.found
    /\ pass.patchIssued
    /\ pass.statusPatched
    /\ ~Changed(cs)
    /\ decision.Outcome = OutcomeSuccess
    /\ identity.ObservedSourceSecretHash = pass.hash

(***************************************************************************)
(* shouldFastPath asked about a stored status *)
(***************************************************************************)

\* What the stored list can hold of one condition type: nothing, or one
\* condition of some status and observed generation.
StoredOf(condType) ==
    {<< >>} \cup
    {<<Condition(condType, s, "Reconciled", "", g, 0)>> :
        s \in Statuses, g \in Generations}

\* Stored condition lists in the order the controller writes them.
StoredStatusLists ==
    {d \o r \o a : d \in StoredOf(ConditionDegraded),
                   r \in StoredOf(ConditionReady),
                   a \in StoredOf(ConditionReferenceSecretReady)}

\* shouldFastPath is asked for the policy as stored and the secret as read.
FastPathQuery(data) ==
    /\ identity # None
    /\ pass' = [hash |-> secretDataHash(data),
                fast |-> shouldFastPath(identity, secretDataHash(data))]
    /\ UNCHANGED <<identity, recorder, clock, passes, ret, frame>>
    /\ UNCHANGED <<limVars, histVars, fanVars, condVars, tgtVars>>

FastPathInit ==
    /\ NoTargets
    /\ NoLimiter
    /\ NoFanout
    /\ NoConditionSet
    /\ \E l \in StoredStatusLists, g \in Generations,
          h \in {""} \cup {secretDataHash(d) : d \in SecretDatas} :
          identity = [Generation |-> g, Targets |-> 0, Conditions |-> l,
                      ObservedSourceSecretHash |-> h]
    /\ recorder = FALSE
    /\ clock = 0
    /\ passes = 0
    /\ pass = None
    /\ ret = None
    /\ frame = None

FastPathNext == \E data \in SecretDatas : FastPathQuery(data)

SpecFastPath == FastPathInit /\ [][FastPathNext]_vars

\* The stored list holds a condition of the type with the status, observed at
\* the generation.
Holds(conditions, condType, status, generation) ==
    \E i \in DOMAIN conditions :
        /\ conditions[i].Type = condType
        /\ conditions[i].Status = status
        /\ conditions[i].ObservedGeneration = generation

\* C15: shouldFastPath answers true exactly when the stored conditions hold
\* Ready=True, Degraded=False and ReferenceSecretReady=True, each observed at
\* the policy's current generation, and the stored ObservedSourceSecretHash is
\* the fingerprint just computed.
C15_FastPathIff ==
    pass # None =>
        (pass.fast <=>
            /\ Holds(identity.Conditions, "Ready", "True", identity.Generation)
            /\ Holds(identity.Conditions, "Degraded", "False",
                     identity.Generation)
            /\ Holds(identity.Conditions, "ReferenceSecretReady", "True",
                     identity.Generation)
            /\ identity.ObservedSourceSecretHash = pass.hash)

\* The answer was true for a policy at its second generation.
C15_Witness ==
    /\ pass # None
    /\ pass.fast
    /\ identity.Generation = 2
    /\ Len(identity.Conditions) = 3

(***************************************************************************)
(* Claims about the fast path of a pass *)
(***************************************************************************)

\* The stored status describes the policy's generation as ready on the
\* source secret of fingerprint hash.
StatusCurrent(id, hash) ==
    /\ Holds(id.Conditions, "Ready", "True", id.Generation)
    /\ Holds(id.Conditions, "Degraded", "False", id.Generation)
    /\ Holds(id.Conditions, "ReferenceSecretReady", "True", id.Generation)
    /\ id.ObservedSourceSecretHash = hash

\* A step in which an invocation reads the source secret and the status of
\* the policy it read is current for it.
FastPathStep ==
    /\ frame # None
    /\ frame.pc = "secret"
    /\ frame' # frame
    /\ frame'.currentHash # ""
    /\ StatusCurrent(frame.identity, frame'.currentHash)

\* An invocation that took the fast path returns.
FastPathReturn ==
    /\ ReturnStep
    /\ frame.found
    /\ frame.phase = ""
    /\ frame.currentHash # ""

\* C16: a pass that takes the fast path runs no fanout (no target is created
\* or patched), issues no status patch and leaves the stored object as it was,
\* leaves the limiter table as it was, logs no line, and returns an empty
\* result: no requeue and no error.
C16_FastPathFrame ==
    [][/\ FastPathStep =>
            /\ frame'.pc = "return"
            /\ frame'.observation = None
            /\ frame'.tried = << >>
            /\ ~frame'.patchIssued
            /\ ~frame'.statusPatched
            /\ frame'.log = None
            /\ frame'.result = [RequeueAfter |-> 0, Err |-> NoErr]
            /\ identity' = identity
            /\ entries' = entries
            /\ cluster' = cluster
       /\ FastPathReturn =>
            /\ obs' = None
            /\ seen' = << >>
            /\ attempts' = << >>
            /\ ~pass'.patchIssued
            /\ ~pass'.statusPatched
            /\ pass'.log = None
            /\ ret' = [RequeueAfter |-> 0, Err |-> NoErr]
            /\ identity' = identity
            /\ entries' = entries
            /\ cluster' = cluster]_vars

\* The second pass of a controller that has a limiter took the fast path on
\* the status the first pass stored.
C16_Witness ==
    /\ frame = None
    /\ passes = 2
    /\ size # 0
    /\ pass # None /\ pass.found
    /\ pass.phase = ""
    /\ pass.hash # ""
    /\ StatusCurrent(identity, pass.hash)
    /\ obs = None
    /\ ret = [RequeueAfter |-> 0, Err |-> NoErr]

\* The last invocation synced every target and its status patch succeeded,
\* or it took the fast path.
SettledPass ==
    /\ pass # None /\ pass.found
    /\ pass.hash # ""
    /\ \/ /\ pass.phase = PhaseFanout
          /\ decision.Outcome = OutcomeSuccess
          /\ obs.Success = obs.Total
          /\ pass.statusPatched
       \/ pass.phase = ""

\* C17: after a pass in which every target sync succeeded and the status
\* patch succeeded, a later pass at the same policy generation that reads the
\* same source content takes the fast path: it runs no fanout and writes no
\* status; the same holds again after that pass, so nothing is written while
\* nothing changes.
C17_IdempotentQuiescence ==
    [][(/\ SettledPass
        /\ frame # None
        /\ frame.pc = "secret"
        /\ frame' # frame
        /\ frame.identity.Generation = cs.observedGeneration
        /\ frame'.currentHash = pass.hash)
       => /\ frame'.pc = "return"
          /\ frame'.phase = ""
          /\ frame'.observation = None
          /\ frame'.tried = << >>
          /\ ~frame'.patchIssued
          /\ frame'.result = [RequeueAfter |-> 0, Err |-> NoErr]
          /\ identity' = identity
          /\ cluster' = cluster]_vars

\* A policy with two targets was synced and its status stored by the first
\* pass; the second pass, later, read the same content and took the fast path.
C17_Witness ==
    /\ frame = None
    /\ passes = 2
    /\ identity.Targets = 2
    /\ pass # None /\ pass.found
    /\ pass.phase = ""
    /\ pass.hash = identity.ObservedSourceSecretHash
    /\ pass.hash # ""
    /\ \E i \in DOMAIN identity.Conditions :
          /\ identity.Conditions[i].Type = ConditionReady
          /\ identity.Conditions[i].Status = "True"
          /\ identity.Conditions[i].LastTransitionTime < clock

(***************************************************************************)
(* Claims about the end of a pass: metrics, patch failure, transition log *)
(***************************************************************************)

\* The status patch of the last invocation was issued and failed.
PatchFailed == pass.patchIssued /\ ~pass.statusPatched

\* C18, as stated: every invocation that finds the policy delivers one
\* RecordAttempt to the recorder, and one RecordFanout when a fanout ran,
\* fast path or not, status patch succeeded or not.
C18_MetricsOnEveryPass ==
    (pass # None /\ pass.found /\ recorder) =>
        /\ pass.attempt # None
        /\ obs # None => pass.fanout # None

\* What the code delivers: an invocation that finds the policy delivers one
\* RecordAttempt, carrying the decision's outcome and reason and the phase,
\* exactly when the controller has a recorder, the pass did not take the fast
\* path and its status patch did not fail; one RecordFanout is delivered with
\* it exactly when a fanout ran; whether a line was logged plays no part.
MetricsWhenFinishCompletes ==
    (pass # None /\ pass.found) =>
        /\ pass.attempt # None <=>
              (recorder /\ pass.phase # "" /\ ~PatchFailed)
        /\ pass.attempt # None =>
              pass.attempt = [Outcome |-> decision.Outcome,
                              Reason |-> decision.Reason,
                              Phase |-> pass.phase]
        /\ pass.fanout # None <=> (pass.attempt # None /\ obs # None)
        /\ pass.fanout # None =>
              pass.fanout = [Total |-> obs.Total, Success |-> obs.Success,
                             Failed |-> obs.Failed]

\* A failing pass with nothing to patch was refused by both gates of the
\* limiter and logged no line; its attempt was delivered to the recorder.
ThrottledPassRecorded ==
    /\ frame = None
    /\ recorder
    /\ pass # None /\ pass.found
    /\ ~pass.patchIssued
    /\ decision # None
    /\ decision.Outcome # OutcomeSuccess
    /\ pass.log = None
    /\ pass.attempt # None

\* The first pass of a controller that has a recorder synced both targets and
\* its status patch failed: no attempt and no fanout counts were delivered.
C18_Witness ==
    /\ frame = None
    /\ passes = 1
    /\ recorder
    /\ pass # None /\ pass.found
    /\ decision # None
    /\ decision.Outcome = OutcomeSuccess
    /\ obs # None /\ obs.Success = 2
    /\ PatchFailed
    /\ ret.Err # NoErr
    /\ pass.attempt = None
    /\ pass.fanout = None

\* C19: when the status patch of a pass returns an error, Reconcile returns an
\* error that wraps it (the patch error's chain under the message "status
\* patch failed (kind/reason): ..."), with no requeue delay; the Decision of
\* the pass stays what was decided and its result is not what is returned.
C19_PatchFailureIsHardFailure ==
    (pass # None /\ pass.found /\ PatchFailed) =>
        /\ ret.Err # NoErr
        /\ ret.RequeueAfter = 0
        /\ \E e \in PatchErrors \ {NoErr} :
              /\ ret.Err.api = e.api
              /\ ret.Err.ctx = e.ctx
              /\ ret.Err.code = e.code
              /\ ret.Err.msg = "status patch failed (Conflict/Conflict): "
                                  \o e.msg
        /\ decision.Err # ret.Err
        /\ decision.Err \in {NoErr} \cup SecretGetErrors

\* A pass that failed in part, and would have been sent back to the queue
\* after the transient delay, returned the patch error instead.
C19_Witness ==
    /\ frame = None
    /\ pass # None /\ pass.found
    /\ PatchFailed
    /\ decision.Outcome = OutcomePartial
    /\ decision.RequeueAfter = TransientDelay
    /\ ret.RequeueAfter = 0
    /\ ret.Err # NoErr
    /\ "IsConflict" \in ret.Err.api

(***************************************************************************)
(* logOperationIfAllowed called at the end of pass after pass *)
(***************************************************************************)

\* Results of the two targets of a fanout: all synced, one conflict, two
\* different failures, twice the same failure.
LogResults ==
    {<<NoErr, NoErr>>, <<NoErr, ErrConflict>>, <<ErrConflict, ErrForbidden>>,
     <<ErrForbidden, ErrForbidden>>}

\* The phase, decision and observation finish can hand to the log call.
LogInputs ==
    {[phase |-> PhasePrecondition,
      dec |-> Decision(OutcomeFailed, "NotFound", SecretNotFoundDelay,
                       "reference secret not found", NoErr),
      o |-> None],
     [phase |-> PhasePrecondition,
      dec |-> Decision(OutcomeFailed,
                       mapErrReasonToResultReason(
                           ClassifyError(ErrForbidden, NotFoundAsTransient)[2]),
                       0, "failed reading reference secret", ErrForbidden),
      o |-> None]}
    \cup
    {[phase |-> PhaseFanout,
      dec |-> FanoutDecision(reconcileIdentity(r)),
      o |-> reconcileIdentity(r)] : r \in LogResults}

\* Fingerprints another holder of the limiter asks for (the limiter is handed
\* to NewController by the host, and a second worker would reconcile another
\* policy).
OtherFingerprints == {<<"fail", "uid-2", PhaseFanout, "Conflict">>}

\* Another goroutine makes an Allow call on the shared limiter.
OtherAllow(fp, interval) ==
    /\ size # 0
    /\ \E a \in AllowOutcomes(entries, size, fp, clock, interval) :
          /\ a.entries # entries
          /\ entries' = a.entries
    /\ UNCHANGED <<size, mutex, call, histVars, fanVars, condVars, tgtVars>>
    /\ UNCHANGED recVars

\* finish reaches its log call at instant now with the input in and the
\* answer statusPatched of the status patch.
LogCall(now, in, statusPatched) ==
    /\ frame = None
    /\ clock' = now
    /\ frame' = AfterPatch(
                   [NoPolicyFrame(now) EXCEPT
                       !.found = TRUE, !.phase = in.phase,
                       !.decision = in.dec, !.observation = in.o],
                   size, statusPatched, statusPatched)
    /\ UNCHANGED <<limVars, histVars, fanVars, condVars, tgtVars>>
    /\ UNCHANGED <<identity, recorder, passes, pass, ret>>

\* The controller was given a limiter (or none); no pass has ended yet.
LoggingInit ==
    /\ NoTargets
    /\ NoFanout
    /\ NoConditionSet
    /\ NoController
    /\ size \in {0} \cup {NewLimiter(n) : n \in 0..1}
    /\ entries = << >>
    /\ mutex = Free
    /\ call = [p \in Procs |-> Idle]
    /\ watched = ""
    /\ granted = None
    /\ solo = << >>

\* Log call after log call; between the calls it makes on the limiter,
\* another goroutine can make its own.
LoggingNext ==
    \/ \E d \in Ticks, in \in LogInputs, statusPatched \in BOOLEAN :
          /\ passes < MaxLogCalls
          /\ LogCall(clock + d, in, statusPatched)
    \/ AllowReminder
    \/ AllowChange
    \/ ReconcileReturn
    \/ \E fp \in OtherFingerprints : OtherAllow(fp, ChangeInterval)

SpecLogging == LoggingInit /\ [][LoggingNext]_vars

\* A step in which finish, its status patch made or not needed, makes its
\* log call.
LogStep ==
    /\ frame = None \/ frame.pc = "patch"
    /\ frame' # None
    /\ frame' # frame
    /\ frame'.found
    /\ frame'.phase # ""
    /\ ~(frame'.patchIssued /\ ~frame'.statusPatched)

\* A step in which the limiter is asked for the reminder fingerprint.
ReminderStep == frame # None /\ frame.pc = "reminder" /\ frame' # frame

\* A step in which the limiter is asked for the change fingerprint.
ChangeStep == frame # None /\ frame.pc = "change" /\ frame' # frame

\* C20: when the decision of a pass is not Success and the status patch of the
\* pass occurred, the failure line is written with the tag "transition",
\* Error for a failed and Info for a partial pass, whatever the limiter table
\* holds, and the table is left as it was: the limiter is not asked and no
\* fingerprint is stored.
C20_TransitionAlwaysLogged ==
    [][/\ (/\ LogStep
           /\ frame'.statusPatched
           /\ frame'.decision.Outcome # OutcomeSuccess)
          => /\ frame'.pc = "return"
             /\ frame'.log # None
             /\ frame'.log.tag = "transition"
             /\ frame'.log.level =
                   (IF frame'.decision.Outcome = OutcomeFailed
                    THEN "error" ELSE "info")
             /\ entries' = entries
       /\ ReturnStep => (pass'.log = frame.log /\ entries' = entries)]_vars

\* The line of a transition was written although the table blocks both the
\* reminder and the change fingerprint of this very failure.
C20_Witness ==
    /\ frame = None
    /\ pass # None /\ pass.found
    /\ pass.statusPatched
    /\ decision.Outcome # OutcomeSuccess
    /\ pass.log # None
    /\ pass.log.tag = "transition"
    /\ Blocked(entries, reminderFingerprint(pass.phase, decision), clock)
    /\ Blocked(entries, changeFingerprint(pass.phase, decision, obs), clock)

\* C21: a pass whose decision is Success writes no log line and leaves the
\* limiter table as it was (no Allow call stores or prunes anything), whether
\* or not its status patch occurred and whatever the table holds.
C21_SuccessNeverLogged ==
    [][/\ (LogStep /\ frame'.decision.Outcome = OutcomeSuccess)
          => /\ frame'.pc = "return"
             /\ frame'.log = None
             /\ entries' = entries
       /\ (ReturnStep /\ frame.decision # None
              /\ frame.decision.Outcome = OutcomeSuccess)
          => /\ pass'.log = None
             /\ entries' = entries]_vars

\* A pass succeeded and patched its status (Degraded to Ready) while the
\* table held a live entry of an earlier failure: nothing was logged.
C21_Witness ==
    /\ frame = None
    /\ pass # None /\ pass.found
    /\ pass.phase = PhaseFanout
    /\ pass.statusPatched
    /\ decision.Outcome = OutcomeSuccess
    /\ pass.log = None
    /\ \E f \in DOMAIN entries : Before(clock, entries[f])

\* A step in which finish makes its log call for a failure whose status patch
\* did not occur, in a controller that has a limiter.
GatedStep ==
    /\ LogStep
    /\ ~frame'.statusPatched
    /\ frame'.decision.Outcome # OutcomeSuccess
    /\ size # 0

\* C22: for a decision other than Success with no status patch in the pass,
\* the failure line is written exactly when the table does not block the
\* reminder fingerprint (policy, phase, primary reason) or does not block the
\* change fingerprint (policy, phase, outcome, reasons, samples), each at the
\* moment the limiter is asked for it; when both are blocked nothing is
\* written and the table stays as it was.  A granted reminder is stored for
\* the interval of its reason, a granted change for 30 seconds, and the change
\* gate is asked only after the reminder gate refused.
C22_LoggedIffAGateAllows ==
    [][/\ GatedStep => (frame'.pc = "reminder" /\ entries' = entries)
       /\ ReminderStep =>
            LET fpReminder ==
                   <<"fail", PolicyUID, frame.phase, frame.decision.Reason>>
                fpChange == changeFingerprint(frame.phase, frame.decision,
                                              frame.observation)
                reminderOK == ~Blocked(entries, fpReminder, clock)
                interval == CASE frame.decision.Reason = "NotFound" -> 1200
                              [] frame.decision.Reason = "Forbidden" -> 300
                              [] frame.decision.Reason = "Conflict" -> 120
            IN /\ reminderOK =>
                     /\ frame'.pc = "return"
                     /\ frame'.log # None
                     /\ frame'.log.tag = "reminder"
                     /\ size = defaultSize =>
                           /\ entries'[fpReminder] = clock + interval
                           /\ fpChange \in DOMAIN entries'
                                 => fpChange \in DOMAIN entries
                           /\ fpChange \in DOMAIN entries =>
                                 entries'[fpChange] = entries[fpChange]
               /\ ~reminderOK =>
                     /\ frame'.pc = "change"
                     /\ frame'.log = None
                     /\ entries' = entries
       /\ ChangeStep =>
            LET fpReminder ==
                   <<"fail", PolicyUID, frame.phase, frame.decision.Reason>>
                fpChange == changeFingerprint(frame.phase, frame.decision,
                                              frame.observation)
                changeOK == ~Blocked(entries, fpChange, clock)
            IN /\ frame'.pc = "return"
               /\ frame'.log # None <=> changeOK
               /\ frame'.log # None => frame'.log.tag = "reminder"
               /\ ~changeOK => entries' = entries
               /\ (changeOK /\ size = defaultSize) =>
                     /\ entries'[fpChange] = clock + 30
                     /\ fpReminder \in DOMAIN entries =>
                           entries'[fpReminder] = entries[fpReminder]
       /\ ReturnStep => (pass'.log = frame.log /\ entries' = entries)]_vars

\* The reminder of this reason was still blocked, but the failure had not
\* been seen in this form: the change gate let the line through.
C22_Witness ==
    /\ frame = None
    /\ pass # None /\ pass.found
    /\ ~pass.statusPatched
    /\ size = defaultSize
    /\ decision.Outcome = OutcomePartial
    /\ pass.log # None
    /\ pass.log.tag = "reminder"
    /\ changeFingerprint(pass.phase, decision, obs) \in DOMAIN entries
    /\ entries[changeFingerprint(pass.phase, decision, obs)] = clock + 30
    /\ reminderFingerprint(pass.phase, decision) \in DOMAIN entries
    /\ entries[reminderFingerprint(pass.phase, decision)] < clock + 120
    /\ Blocked(entries, reminderFingerprint(pass.phase, decision), clock)

(***************************************************************************)
(* Claims about the observation of a fanout *)
(***************************************************************************)

\* C23: while the targets of a fanout are observed one after the other,
\* Success + Failed never exceeds Total, and when the fanout is over and its
\* outcome decided, Success + Failed equals Total.
C23_ObservedWithinTotal ==
    obs # None =>
        /\ obs.Success >= 0 /\ obs.Failed >= 0
        /\ obs.Success + obs.Failed <= obs.Total
        /\ decision # None => obs.Success + obs.Failed = obs.Total

\* C23, in a pass of the controller: the observation handed to finish has
\* Total equal to the number of targets of the policy, all of them observed.
C23_TotalIsTargets ==
    (obs # None /\ identity # None) =>
        /\ obs.Total = identity.Targets
        /\ obs.Success + obs.Failed = obs.Total

\* A fanout over three targets ended with failures and successes.
C23_Witness ==
    /\ obs # None
    /\ decision # None
    /\ obs.Total = 3
    /\ obs.Success = 1
    /\ obs.Failed = 2

(***************************************************************************)
(* An observation with a small sample capacity, fed target after target *)
(***************************************************************************)

\* Errors a target sync can return.
ObservedErrors == {ErrConflict, ErrForbidden, ErrPlain}

\* One more target synced.
ObserveSuccessCall ==
    /\ obs # None
    /\ Observed(obs) < MaxObserved
    /\ obs' = ObserveSuccess(obs)
    /\ UNCHANGED <<seen, decision>>

\* One more target failed with err; seen keeps every failure, in order, as
\* the sample it would make.
ObserveFailureCall(err) ==
    /\ obs # None
    /\ Observed(obs) < MaxObserved
    /\ LET c == ClassifyError(err, NotFoundAsTransient)
       IN /\ obs' = ObserveFailure(obs, Observed(obs) + 1, c[1], c[2], err)
          /\ seen' = Append(seen, Sample(Observed(obs) + 1, err.msg, c[2], c[1]))
    /\ UNCHANGED decision

ObservationInit ==
    /\ NoTargets
    /\ NoLimiter
    /\ NoConditionSet
    /\ NoController
    /\ \E total \in 0..MaxObserved, max \in 0..MaxSampleSize :
          obs = NewObservation(total, max)
    /\ seen = << >>
    /\ decision = None

ObservationNext ==
    \/ ObserveSuccessCall /\ UNCHANGED offFanout
    \/ \E err \in ObservedErrors : ObserveFailureCall(err) /\ UNCHANGED offFanout

SpecObservation == ObservationInit /\ [][ObservationNext]_vars

\* C24: after any sequence of ObserveFailure calls the samples are no more
\* than MaxSample and are the first failures in the order observed; every
\* failure, sampled or not, is counted in Failed and under its reason in
\* Reasons, so that the counts of Reasons sum to Failed.
C24_SamplingBoundedCountingNot ==
    obs # None =>
        /\ Len(obs.Samples) <= obs.MaxSample
        /\ Len(obs.Samples) =
              (IF Len(seen) < obs.MaxSample THEN Len(seen) ELSE obs.MaxSample)
        /\ \A i \in DOMAIN obs.Samples : obs.Samples[i] = seen[i]
        /\ obs.Failed = Len(seen)
        /\ DOMAIN obs.Reasons = {seen[i].Reason : i \in DOMAIN seen}
        /\ \A r \in DOMAIN obs.Reasons :
              obs.Reasons[r] =
                  Cardinality({i \in DOMAIN seen : seen[i].Reason = r})

\* Four failures were observed by an observation that keeps two samples.
C24_Witness ==
    /\ obs # None
    /\ obs.MaxSample = 2
    /\ obs.Failed = 4
    /\ Len(obs.Samples) = 2
    /\ Cardinality(DOMAIN obs.Reasons) >= 2
    /\ seen[3] # seen[1]

(***************************************************************************)
(* PrimaryReason asked of an observation with a given histogram *)
(***************************************************************************)

\* The reasons of errclass and two names it does not know.
HistogramReasons ==
    {"Forbidden", "Conflict", "NotFound", "Timeout", "Invalid", "Other",
     "Custom", "Quota"}

\* Histograms ObserveFailure calls can leave in Reasons.
Histograms ==
    UNION {[S -> 1..MaxCount] : S \in SUBSET HistogramReasons}

\* Sum of the counts of a histogram.
RECURSIVE Failures(_)
Failures(h) ==
    IF DOMAIN h = {} THEN 0
    ELSE LET r == CHOOSE x \in DOMAIN h : TRUE
         IN h[r] + Failures([x \in DOMAIN h \ {r} |-> h[x]])

PrimaryReasonCall ==
    /\ obs # None
    /\ ret = None
    /\ ret' = [Reason |-> PrimaryReason(obs)]
    /\ UNCHANGED <<identity, recorder, clock, passes, pass, frame>>
    /\ UNCHANGED <<limVars, histVars, fanVars, condVars, tgtVars>>

PrimaryInit ==
    /\ NoTargets
    /\ NoLimiter
    /\ NoConditionSet
    /\ NoController
    /\ \E h \in Histograms :
          obs = [NewObservation(Failures(h), maxSample) EXCEPT
                    !.Reasons = h, !.Failed = Failures(h)]
    /\ seen = << >>
    /\ decision = None

PrimaryNext == PrimaryReasonCall

SpecPrimary == PrimaryInit /\ [][PrimaryNext]_vars

\* The priority of a reason in ties, and the reasons in the order of their
\* names.
TiePriority ==
    [r \in HistogramReasons |->
        CASE r = "Invalid" -> 60
          [] r = "Forbidden" -> 50
          [] r = "NotFound" -> 40
          [] r = "Conflict" -> 30
          [] r = "Timeout" -> 20
          [] r = "Other" -> 10
          [] OTHER -> 0]

NameOrder ==
    <<"Conflict", "Custom", "Forbidden", "Invalid", "NotFound", "Other",
      "Quota", "Timeout">>

NameIndex(r) == CHOOSE i \in DOMAIN NameOrder : NameOrder[i] = r

\* w comes before r: more frequent, or as frequent and of higher priority,
\* or equal in both and of smaller name.
ComesFirst(h, w, r) ==
    \/ h[w] > h[r]
    \/ h[w] = h[r] /\ TiePriority[w] > TiePriority[r]
    \/ h[w] = h[r] /\ TiePriority[w] = TiePriority[r]
          /\ NameIndex(w) < NameIndex(r)

\* The reason of the result domain that stands for a reason of errclass.
ResultImage ==
    [r \in HistogramReasons |->
        CASE r = "NotFound" -> "NotFound"
          [] r = "Forbidden" -> "Forbidden"
          [] r = "Invalid" -> "InvalidSpec"
          [] r = "Conflict" -> "Conflict"
          [] r = "Timeout" -> "Timeout"
          [] r = "Other" -> "APIServerError"
          [] OTHER -> "Unknown"]

\* C25: PrimaryReason answers Unknown when no failure was observed, and
\* otherwise the result-domain image of the one reason that comes before all
\* others: higher count, then higher priority, then smaller name.
C25_PrimaryReasonOrder ==
    (obs # None /\ ret # None) =>
        IF DOMAIN obs.Reasons = {} THEN ret.Reason = "Unknown"
        ELSE \E w \in DOMAIN obs.Reasons :
                /\ \A r \in DOMAIN obs.Reasons \ {w} :
                      ComesFirst(obs.Reasons, w, r)
                /\ ret.Reason = ResultImage[w]

\* Timeout and Invalid were each observed three times: Invalid comes first.
C25_Witness ==
    /\ obs # None
    /\ DOMAIN obs.Reasons = {"Timeout", "Invalid"}
    /\ obs.Reasons["Timeout"] = 3
    /\ obs.Reasons["Invalid"] = 3
    /\ ret = [Reason |-> "InvalidSpec"]

(***************************************************************************)
(* ClassifyError asked about an error under a not-found policy *)
(***************************************************************************)

\* The predicates of apierrors that ClassifyError asks.
ApiPredicates ==
    {"IsConflict", "IsAlreadyExists", "IsForbidden", "IsUnauthorized",
     "IsInvalid", "IsNotFound", "IsTimeout", "IsServerTimeout",
     "IsTooManyRequests", "IsInternalError"}

\* Status codes: none, one outside the server-error range, one inside.
StatusCodes == {0, 410, 503}

\* Non-nil errors: plain ones, and StatusErrors that answer at most one of
\* the predicates; either may wrap a context error.
ClassifiedErrors ==
    {Error("e", c, {}, FALSE, 0) :
        c \in SUBSET {"DeadlineExceeded", "Canceled"}}
    \cup
    {Error("e", c, a, TRUE, code) :
        c \in SUBSET {"DeadlineExceeded", "Canceled"},
        a \in {{}} \cup {{x} : x \in ApiPredicates},
        code \in StatusCodes}

NotFoundPolicies == {NotFoundAsConfig, NotFoundAsTransient}

\* The error in pass.err is classified under a policy.
ClassifyCall(notFoundPolicy) ==
    /\ pass # None
    /\ ret = None
    /\ LET c == ClassifyError(pass.err, notFoundPolicy)
       IN ret' = [policy |-> notFoundPolicy, kind |-> c[1], reason |-> c[2]]
    /\ UNCHANGED <<identity, recorder, clock, passes, pass, frame>>
    /\ UNCHANGED <<limVars, histVars, fanVars, condVars, tgtVars>>

ClassifyInit ==
    /\ NoTargets
    /\ NoLimiter
    /\ NoFanout
    /\ NoConditionSet
    /\ identity = None
    /\ recorder = FALSE
    /\ clock = 0
    /\ passes = 0
    /\ \E e \in ClassifiedErrors : pass = [err |-> e]
    /\ ret = None
    /\ frame = None

ClassifyNext == \E p \in NotFoundPolicies : ClassifyCall(p)

SpecClassify == ClassifyInit /\ [][ClassifyNext]_vars

\* The other policy.
OtherPolicy(p) ==
    IF p = NotFoundAsTransient THEN NotFoundAsConfig ELSE NotFoundAsTransient

\* C26: one and the same not-found error is classified (Transient, NotFound)
\* under NotFoundAsTransient and (Config, NotFound) under NotFoundAsConfig;
\* for an error that the two policies classify differently, both results
\* have reason NotFound: the policy changes no other class of error.
C26_NotFoundPolicy ==
    ret # None =>
        LET e == pass.err
            other == ClassifyError(e, OtherPolicy(ret.policy))
        IN /\ (e.ctx = {} /\ e.api = {"IsNotFound"}) =>
                 /\ ret.reason = "NotFound"
                 /\ ret.kind = (IF ret.policy = NotFoundAsTransient
                                THEN "Transient" ELSE "Config")
                 /\ other = <<IF ret.policy = NotFoundAsTransient
                              THEN "Config" ELSE "Transient", "NotFound">>
           /\ <<ret.kind, ret.reason>> # other =>
                 /\ e.ctx = {} /\ e.api = {"IsNotFound"}
                 /\ ret.reason = "NotFound"

\* A not-found StatusError was classified under NotFoundAsConfig.
C26_Witness ==
    /\ ret # None
    /\ ret.policy = NotFoundAsConfig
    /\ pass.err.api = {"IsNotFound"}
    /\ pass.err.ctx = {}
    /\ ret.kind = "Config"
    /\ ret.reason = "NotFound"

\* C27: a non-nil error that is no context error and answers none of the
\* predicates is classified (Transient, Other), whatever its status code;
\* Kind Terminal is given only to a cancellation, and Kind Config only to
\* forbidden, unauthorized, invalid, or not-found under NotFoundAsConfig.
C27_FailOpenDefault ==
    ret # None =>
        LET e == pass.err
        IN /\ ret.kind \in {"Transient", "Conflict", "Config", "Terminal"}
           /\ (e.ctx = {} /\ e.api = {}) =>
                 (ret.kind = "Transient" /\ ret.reason = "Other")
           /\ ret.kind = "Terminal" =>
                 ("Canceled" \in e.ctx /\ "DeadlineExceeded" \notin e.ctx)
           /\ ret.kind = "Config" =>
                 \/ e.api \cap {"IsForbidden", "IsUnauthorized", "IsInvalid"} # {}
                 \/ "IsNotFound" \in e.api /\ ret.policy = NotFoundAsConfig

\* A StatusError of code 410 that answers no predicate was classified
\* (Transient, Other).
C27_Witness ==
    /\ ret # None
    /\ pass.err.status
    /\ pass.err.code = 410
    /\ pass.err.api = {}
    /\ pass.err.ctx = {}
    /\ ret.kind = "Transient"
    /\ ret.reason = "Other"


(***************************************************************************)
(* Failure modes of a pass *)
(***************************************************************************)
\* The pass found the policy and the Get of the source secret answered
\* not-found.
SourceMissingPass ==
    /\ pass # None /\ pass.found
    /\ pass.phase = PhasePrecondition
    /\ decision # None /\ decision.Reason = "NotFound"

\* C28, as stated: a pass whose read of the source secret fails with
\* not-found attempts no target write, sets ReferenceSecretReady=False,
\* Ready=False and Degraded=True, decides Failed / NotFound and returns a 5
\* minute RequeueAfter with a nil error.
C28_SourceMissingAlwaysRequeues ==
    SourceMissingPass =>
        /\ obs = None
        /\ attempts = << >>
        /\ Holds(Conditions(cs), ConditionReferenceSecretReady, "False",
                 cs.observedGeneration)
        /\ Holds(Conditions(cs), ConditionReady, "False", cs.observedGeneration)
        /\ Holds(Conditions(cs), ConditionDegraded, "True",
                 cs.observedGeneration)
        /\ decision.Outcome = OutcomeFailed
        /\ decision.Reason = "NotFound"
        /\ ret = [RequeueAfter |-> 300, Err |-> NoErr]

\* C28, amended: a pass whose read of the source secret fails with not-found
\* runs no fanout (no target is attempted, no observation exists), marks
\* ReferenceSecretReady=False, Ready=False and Degraded=True at the
\* generation it read and decides Failed / NotFound with a requeue after 5
\* minutes and no error.  It returns that delay with a nil error and the
\* stored status is what it marked, until the next invocation writes it,
\* unless its status patch failed: then it returns the patch error with no
\* requeue delay.
C28_SourceMissingNoFanout ==
    SourceMissingPass =>
        /\ obs = None
        /\ seen = << >>
        /\ pass.fanout = None
        /\ Holds(Conditions(cs), ConditionReferenceSecretReady, "False",
                 cs.observedGeneration)
        /\ Holds(Conditions(cs), ConditionReady, "False", cs.observedGeneration)
        /\ Holds(Conditions(cs), ConditionDegraded, "True",
                 cs.observedGeneration)
        /\ decision.Outcome = OutcomeFailed
        /\ decision.RequeueAfter = SecretNotFoundDelay
        /\ decision.Err = NoErr
        /\ SecretNotFoundDelay = 300
        /\ attempts = << >>
        /\ IF PatchFailed
           THEN /\ ret.Err # NoErr
                /\ ret.RequeueAfter = 0
           ELSE /\ ret = [RequeueAfter |-> 300, Err |-> NoErr]
                /\ frame = None =>
                      /\ Holds(identity.Conditions,
                               ConditionReferenceSecretReady, "False",
                               cs.observedGeneration)
                      /\ Holds(identity.Conditions, ConditionReady, "False",
                               cs.observedGeneration)
                      /\ Holds(identity.Conditions, ConditionDegraded, "True",
                               cs.observedGeneration)

\* A pass on a policy that had targets and whose stored status said the
\* secret was available found the secret missing: it patched the three
\* conditions and returned the 5 minute delay.
C28_Witness ==
    /\ frame = None
    /\ SourceMissingPass
    /\ identity.Targets > 0
    /\ pass.statusPatched
    /\ obs = None
    /\ Holds(identity.Conditions, ConditionReferenceSecretReady, "False",
             cs.observedGeneration)
    /\ Holds(identity.Conditions, ConditionDegraded, "True",
             cs.observedGeneration)
    /\ Holds(cs.original, ConditionReferenceSecretReady, "True",
             cs.observedGeneration)
    /\ ret = [RequeueAfter |-> 300, Err |-> NoErr]


(***************************************************************************)
(* internal/controller: the fanout of one pass, target by target *)
(***************************************************************************)

\* A pass on a policy that has no status yet has read the source secret and
\* enters reconcileIdentity.
TargetsInit ==
    /\ NoFanout
    /\ NoConditionSet
    /\ size \in {0, NewLimiter(1)}
    /\ entries = << >>
    /\ mutex = Free
    /\ call = [p \in Procs |-> Idle]
    /\ watched = ""
    /\ granted = None
    /\ solo = << >>
    /\ \E l \in TargetLists :
          identity = [Generation |-> 1, Targets |-> Len(l),
                      TargetNamespaces |-> l, Conditions |-> << >>,
                      ObservedSourceSecretHash |-> ""]
    /\ recorder \in BOOLEAN
    /\ clock = 0
    /\ passes = 0
    /\ pass = None
    /\ ret = None
    /\ attempts = << >>
    /\ \E data \in SecretDatas, copy \in {NoCopy, StaleCopy} :
          /\ cluster = [source |-> data,
                        target |-> [namespace \in 1..MaxTargets |-> copy]]
          /\ frame = EnterFanout(NewFrame(identity, 0), data)

TargetsNext ==
    \/ \E saErr \in ServiceAccountErrors :
          ReconcileNamespaceServiceAccount(saErr)
    \/ \E secretErr \in TargetSecretErrors :
          ReconcileNamespaceSecret(secretErr)
    \/ \E patchErr \in PatchErrors : finish(patchErr)
    \/ ReconcileReturn

SpecTargets == TargetsInit /\ [][TargetsNext]_vars

\* The invocation in progress or, when none is, the last one: the targets it
\* attempted, its observation, its decision, its condition set, and whether
\* its status patch failed.
PassTried == IF frame # None THEN frame.tried ELSE attempts
PassObservation == IF frame # None THEN frame.observation ELSE obs
PassDecision == IF frame # None THEN frame.decision ELSE decision
PassConditions == IF frame # None THEN frame.conditions ELSE cs
PassPatchFailed ==
    IF frame # None THEN frame.patchIssued /\ ~frame.statusPatched
    ELSE PatchFailed

\* finish has made its status patch, or found none to make.
PassFinished == frame = None \/ frame.pc \in {"reminder", "change", "return"}

\* C29: in the fanout of a pass the entries of the policy's target list are
\* attempted one by one in list order, each target once, whatever the earlier
\* attempts answered: while an entry is left the next attempt can be made,
\* and the pass is decided only when every entry was attempted.  A target
\* whose attempt succeeded holds the service account and the source data
\* from then on, whatever later attempts answer.  A pass in which some target
\* failed and some succeeded is decided Partial and marks Ready=False and
\* Degraded=True, which is what the stored status holds unless the status
\* patch itself failed.
C29_PartialFailureDoesNotStopThePass ==
    cluster # None =>
        LET list == identity.TargetNamespaces
            tried == PassTried
            o == PassObservation
            dec == PassDecision
        IN /\ Len(tried) <= Len(list)
           /\ \A i \in DOMAIN tried : tried[i].Namespace = list[i]
           /\ \A i, j \in DOMAIN tried :
                 tried[i].Namespace = tried[j].Namespace => i = j
           /\ o.Total = Len(list)
           /\ o.Success + o.Failed = Len(tried)
           /\ (dec = None /\ Len(tried) < Len(list))
                 => \/ ENABLED (\E saErr \in ServiceAccountErrors :
                                   ReconcileNamespaceServiceAccount(saErr))
                    \/ ENABLED (\E secretErr \in TargetSecretErrors :
                                   ReconcileNamespaceSecret(secretErr))
           /\ dec # None => Len(tried) = Len(list)
           /\ \A i \in DOMAIN tried :
                 tried[i].Err = NoErr =>
                    /\ cluster.target[tried[i].Namespace].serviceAccount
                    /\ cluster.target[tried[i].Namespace].data
                          = cluster.source
           /\ (dec # None /\ o.Failed > 0 /\ o.Success > 0) =>
                 /\ dec.Outcome = OutcomePartial
                 /\ PassFinished =>
                       /\ Holds(Conditions(PassConditions), ConditionDegraded,
                                "True", identity.Generation)
                       /\ Holds(Conditions(PassConditions), ConditionReady,
                                "False", identity.Generation)
                       /\ ~PassPatchFailed =>
                             /\ Holds(identity.Conditions, ConditionDegraded,
                                      "True", identity.Generation)
                             /\ Holds(identity.Conditions, ConditionReady,
                                      "False", identity.Generation)

\* The first of three targets failed, the second and the third were
\* attempted after it and synced; the pass ended Partial with Degraded=True
\* stored, and both synced targets hold the source data.
C29_Witness ==
    /\ frame = None
    /\ cluster # None
    /\ decision # None
    /\ Len(attempts) = 3
    /\ identity.TargetNamespaces = <<2, 3, 1>>
    /\ attempts[1].Err # NoErr
    /\ attempts[2].Err = NoErr
    /\ attempts[3].Err = NoErr
    /\ cluster.target[3].data = cluster.source
    /\ cluster.target[1].data = cluster.source
    /\ cluster.target[2].data # cluster.source
    /\ decision.Outcome = OutcomePartial
    /\ pass.statusPatched
    /\ Holds(identity.Conditions, ConditionDegraded, "True", 1)


\* Some target of the decided pass failed with an error classified Transient.
TransientTargetFailure ==
    /\ cluster # None
    /\ decision # None
    /\ \E i \in DOMAIN attempts :
          /\ attempts[i].Err # NoErr
          /\ ClassifyError(attempts[i].Err, NotFoundAsTransient)[1]
                = KindTransient

\* C30, as stated: a pass in which a target sync failed with an error
\* classified Transient returns a non-nil error to the host.
C30_TransientReturnedAsError ==
    TransientTargetFailure => ret.Err # NoErr

\* C30, amended: a pass in which a target sync failed with an error
\* classified Transient is decided with no error and a requeue after
\* TransientDelay (2 minutes), and returns that fixed delay with a nil error;
\* the target's failure is never what is returned.  The only error such a
\* pass returns is the error of its own status patch.
C30_TransientRetriedAfterFixedDelay ==
    TransientTargetFailure =>
        /\ decision.Outcome \in {OutcomePartial, OutcomeFailed}
        /\ decision.Err = NoErr
        /\ decision.RequeueAfter = TransientDelay
        /\ TransientDelay = 120
        /\ \A i \in DOMAIN attempts : ret.Err # attempts[i].Err \/ ret.Err = NoErr
        /\ IF PatchFailed
           THEN /\ ret.RequeueAfter = 0
                /\ ret.Err # NoErr
                /\ "IsConflict" \in ret.Err.api
           ELSE ret = [RequeueAfter |-> 120, Err |-> NoErr]

\* The only target of the policy timed out, the status was patched, and the
\* pass returned the 2 minute delay with a nil error.
C30_Witness ==
    /\ frame = None
    /\ TransientTargetFailure
    /\ Len(attempts) = 1
    /\ "DeadlineExceeded" \in attempts[1].Err.ctx
    /\ decision.Outcome = OutcomeFailed
    /\ decision.Reason = "Timeout"
    /\ pass.statusPatched
    /\ ret = [RequeueAfter |-> 120, Err |-> NoErr]


(***************************************************************************)
(* Reconcile, pass after pass, over the source secret and the targets *)
(***************************************************************************)

\* What the source secret is edited to in these passes: one of two contents,
\* or nothing when it is deleted.
SyncSources == {FirstSource, EditedSource, None}

\* A policy with two targets was created; the source secret exists and no
\* target holds anything yet.
SyncInit ==
    /\ NoFanout
    /\ NoConditionSet
    /\ size = NewLimiter(0)
    /\ entries = << >>
    /\ mutex = Free
    /\ call = [p \in Procs |-> Idle]
    /\ watched = ""
    /\ granted = None
    /\ solo = << >>
    /\ identity = [Generation |-> 1, Targets |-> 2,
                   TargetNamespaces |-> <<1, 2>>, Conditions |-> << >>,
                   ObservedSourceSecretHash |-> ""]
    /\ recorder = TRUE
    /\ clock = 0
    /\ passes = 0
    /\ pass = None
    /\ ret = None
    /\ frame = None
    /\ attempts = << >>
    /\ cluster = [source |-> FirstSource,
                  target |-> [namespace \in 1..MaxTargets |-> NoCopy]]

\* Invocations follow one another, SyncTick seconds apart; the source secret
\* and the policy are edited at any moment, also while an invocation runs.
SyncNext ==
    \/ /\ passes < MaxSyncPasses
       /\ ReconcileGetPolicy(clock + SyncTick, NoErr)
    \/ ReconcileGetSecret(NoErr)
    \/ \E saErr \in ServiceAccountErrors :
          ReconcileNamespaceServiceAccount(saErr)
    \/ \E secretErr \in SyncSecretErrors :
          ReconcileNamespaceSecret(secretErr)
    \/ \E patchErr \in PatchErrors : finish(patchErr)
    \/ AllowReminder
    \/ AllowChange
    \/ ReconcileReturn
    \/ \E data \in SyncSources : SourceChanged(data)
    \/ PolicyEdited

SpecSync == SyncInit /\ [][SyncNext]_vars

\* The invocation in progress took the fast path and is about to return.
TookFastPath ==
    /\ frame # None
    /\ frame.pc = "return"
    /\ frame.found
    /\ frame.phase = ""
    /\ frame.currentHash # ""

\* C31, as stated: when an invocation took the fast path, every target
\* namespace of the policy holds a copy of the secret whose fingerprint is
\* the fingerprint of the source the invocation read.
C31_FastPathSound ==
    TookFastPath =>
        \A i \in DOMAIN frame.identity.TargetNamespaces :
            secretDataHash(
                cluster.target[frame.identity.TargetNamespaces[i]].data)
              = frame.currentHash


\* C32: the stored ObservedSourceSecretHash changes only in a pass of the
\* fanout phase that ended in Success and whose status patch succeeded, and
\* becomes the fingerprint of the source secret that pass read; after a
\* Success pass whose patch did not fail it is that fingerprint.  A pass that
\* ended Partial or Failed, in the fanout or in the precondition phase, and
\* every other step, leaves it as it was: neither updated nor cleared.
C32_HashWrittenOnlyBySuccess ==
    [][/\ identity'.ObservedSourceSecretHash # identity.ObservedSourceSecretHash
          => /\ FinishStep
             /\ frame.phase = PhaseFanout
             /\ frame.decision.Outcome = OutcomeSuccess
             /\ frame'.statusPatched
             /\ frame.secret # None
             /\ frame.currentHash = secretDataHash(frame.secret)
             /\ identity'.ObservedSourceSecretHash = frame.currentHash
       /\ (FinishStep /\ frame.decision.Outcome = OutcomeSuccess
             /\ ~(frame'.patchIssued /\ ~frame'.statusPatched))
          => identity'.ObservedSourceSecretHash = frame.currentHash
       /\ (FinishStep /\ frame.decision.Outcome # OutcomeSuccess)
          => identity'.ObservedSourceSecretHash
                = identity.ObservedSourceSecretHash]_vars

\* After a Success, the source changed and a pass ended Partial with its
\* status patched: the stored fingerprint is still the one of the earlier
\* source.
C32_Witness ==
    /\ frame = None
    /\ pass # None /\ pass.found
    /\ pass.phase = PhaseFanout
    /\ decision.Outcome = OutcomePartial
    /\ pass.statusPatched
    /\ identity.ObservedSourceSecretHash # ""
    /\ identity.ObservedSourceSecretHash # pass.hash


\* The conditions of the list are consistent: at most one of each type,
\* Ready and Degraded are both there or both missing, have opposite statuses
\* and the same generation, and ReferenceSecretReady=False goes with
\* Ready=False.
Consistent(conditions) ==
    /\ \A i, j \in DOMAIN conditions :
          conditions[i].Type = conditions[j].Type => i = j
    /\ \A i \in DOMAIN conditions :
          /\ conditions[i].Status \in {"True", "False"}
          /\ conditions[i].Type \in {ConditionReady, ConditionDegraded,
                                     ConditionReferenceSecretReady}
    /\ \A i \in DOMAIN conditions :
          conditions[i].Type = ConditionReady =>
             \E j \in DOMAIN conditions :
                /\ conditions[j].Type = ConditionDegraded
                /\ conditions[j].Status # conditions[i].Status
                /\ conditions[j].ObservedGeneration
                      = conditions[i].ObservedGeneration
    /\ \A j \in DOMAIN conditions :
          conditions[j].Type = ConditionDegraded =>
             \E i \in DOMAIN conditions : conditions[i].Type = ConditionReady
    /\ \A i, j \in DOMAIN conditions :
          (/\ conditions[i].Type = ConditionReferenceSecretReady
           /\ conditions[i].Status = "False"
           /\ conditions[j].Type = ConditionReady)
          => conditions[j].Status = "False"

\* C33: the conditions a pass marks, and the status the store holds after any
\* sequence of passes, are consistent: Ready=True exactly when Degraded=False
\* exactly when the pass ended in Success, Ready and Degraded carry the
\* generation the pass read, ReferenceSecretReady=False implies Ready=False,
\* and Ready=True is never together with Degraded=True or with
\* ReferenceSecretReady=False.  What a pass patched is what the store holds
\* until the next invocation.
C33_ConditionConsistency ==
    /\ identity # None => Consistent(identity.Conditions)
    /\ (pass # None /\ pass.found /\ pass.phase # "") =>
          LET marked == Conditions(cs)
              g == cs.observedGeneration
          IN /\ Consistent(marked)
             /\ Holds(marked, ConditionReady, "True", g)
                   <=> decision.Outcome = OutcomeSuccess
             /\ Holds(marked, ConditionDegraded, "False", g)
                   <=> decision.Outcome = OutcomeSuccess
             /\ Holds(marked, ConditionReady, "False", g)
                   <=> decision.Outcome # OutcomeSuccess
             /\ Holds(marked, ConditionDegraded, "True", g)
                   <=> decision.Outcome # OutcomeSuccess
             /\ Holds(marked, ConditionReferenceSecretReady, "False", g)
                   <=> pass.phase = PhasePrecondition
             /\ pass.phase = PhasePrecondition
                   => decision.Outcome = OutcomeFailed
             /\ (pass.statusPatched /\ frame = None) =>
                   \A i \in DOMAIN marked :
                      \E j \in DOMAIN identity.Conditions :
                         /\ identity.Conditions[j].Type = marked[i].Type
                         /\ identity.Conditions[j].Status = marked[i].Status
                         /\ identity.Conditions[j].ObservedGeneration = g

\* The policy was Ready at generation 1, was edited, and a pass at generation
\* 2 found the source secret missing: the status it wrote holds
\* ReferenceSecretReady=False, Ready=False and Degraded=True at generation 2.
C33_Witness ==
    /\ frame = None
    /\ pass # None /\ pass.found
    /\ pass.phase = PhasePrecondition
    /\ pass.statusPatched
    /\ cs.observedGeneration = 2
    /\ Holds(cs.original, ConditionReady, "True", 1)
    /\ Holds(identity.Conditions, ConditionReady, "False", 2)
    /\ Holds(identity.Conditions, ConditionDegraded, "True", 2)
    /\ Holds(identity.Conditions, ConditionReferenceSecretReady, "False", 2)


\* A step in which finish runs in a pass repeating the pass before it: the
\* pass before it did not fail to patch, and this pass read the same
\* generation and ends in the same phase with the same outcome and, in the
\* precondition phase, the same reason class (not-found, or any other read
\* failure).
RepeatedPass ==
    /\ FinishStep
    /\ pass # None /\ pass.found /\ pass.phase # ""
    /\ ~PatchFailed
    /\ cs.observedGeneration = frame.conditions.observedGeneration
    /\ frame.phase = pass.phase
    /\ frame.decision.Outcome = decision.Outcome
    /\ (frame.decision.Reason = "NotFound") <=> (decision.Reason = "NotFound")

\* C34, as stated: a pass repeating the pass before it has Changed() false
\* and issues no status patch.
C34_RepeatedPassNeverPatches ==
    [][RepeatedPass =>
          (~Changed(frame'.conditions) /\ ~frame'.patchIssued)]_vars

\* C34, amended: a pass repeating the pass before it has Changed() false; it
\* issues a status patch only when it ended in Success and the fingerprint of
\* the source it read is not the stored one, and that patch changes the
\* stored fingerprint alone.  A repeated pass that did not succeed issues no
\* patch and leaves the stored object as it was, however many times it is
\* repeated.
C34_RepeatedPassPatchesOnlyNewHash ==
    [][RepeatedPass =>
         /\ ~Changed(frame'.conditions)
         /\ frame'.patchIssued <=>
               /\ frame.decision.Outcome = OutcomeSuccess
               /\ frame.currentHash # identity.ObservedSourceSecretHash
         /\ frame.decision.Outcome # OutcomeSuccess =>
               /\ ~frame'.patchIssued
               /\ identity' = identity
         /\ identity'.Conditions = identity.Conditions]_vars

\* The third pass in a row whose fanout failed entirely: the status was
\* already Degraded when it started and it issued no patch.
C34_Witness ==
    /\ frame = None
    /\ passes = 3
    /\ pass # None /\ pass.found
    /\ pass.phase = PhaseFanout
    /\ decision.Outcome = OutcomeFailed
    /\ Holds(cs.original, ConditionDegraded, "True", cs.observedGeneration)
    /\ ~Changed(cs)
    /\ ~pass.patchIssued
    /\ ret.Err = NoErr


\* C35: in a gated call the change fingerprint is touched only when the
\* reminder gate refuses.  When the reminder gate grants, the line is written
\* and the change fingerprint is not stored: its entry, if any, is left as it
\* was.  When the reminder gate refuses and the change gate grants, the change
\* window starts at that instant.  So when a pass logged through the reminder
\* gate and the same failure comes back less than 30 seconds later (same
\* phase, decision and observation, no status patch), the reminder gate
\* refuses, the change gate has no entry and grants: the line is written
\* again, and only then does the 30 second window start.
C35_ChangeGateAskedOnlyAfterRefusal ==
    [][/\ ReminderStep =>
            LET fpReminder == reminderFingerprint(frame.phase, frame.decision)
                fpChange == changeFingerprint(frame.phase, frame.decision,
                                              frame.observation)
                interval == reminderInterval(primaryReason(frame.decision))
                reminderOK == ~Blocked(entries, fpReminder, clock)
            IN /\ reminderOK =>
                     /\ frame'.pc = "return"
                     /\ frame'.log # None
                     /\ fpChange \in DOMAIN entries' =>
                           /\ fpChange \in DOMAIN entries
                           /\ entries'[fpChange] = entries[fpChange]
               /\ (/\ pass # None /\ pass.found /\ pass.phase = frame.phase
                   /\ decision = frame.decision /\ obs = frame.observation
                   /\ ~pass.statusPatched /\ pass.log # None
                   /\ fpReminder \in DOMAIN entries
                   /\ clock < entries[fpReminder]
                   /\ clock - (entries[fpReminder] - interval)
                         < ChangeInterval) =>
                     /\ ~reminderOK
                     /\ frame'.pc = "change"
                     /\ entries' = entries
       /\ ChangeStep =>
            LET fpChange == changeFingerprint(frame.phase, frame.decision,
                                              frame.observation)
            IN /\ ~frame.reminderOk
               /\ fpChange \notin DOMAIN entries =>
                     /\ frame'.log # None
                     /\ frame'.log.tag = "reminder"
                     /\ size = defaultSize =>
                           entries'[fpChange] = clock + ChangeInterval
               /\ (/\ ~Blocked(entries, fpChange, clock)
                   /\ fpChange \in DOMAIN entries') =>
                     entries'[fpChange] = clock + ChangeInterval]_vars

\* A failure was logged through the reminder gate and came back less than 30
\* seconds later with no status patch: the reminder entry is the one stored by
\* the earlier pass, the change entry was stored by this pass, and this pass
\* logged too.
C35_Witness ==
    /\ frame = None
    /\ pass # None /\ pass.found
    /\ passes = 2
    /\ size = defaultSize
    /\ ~pass.statusPatched
    /\ decision # None /\ decision.Outcome = OutcomePartial
    /\ pass.log # None
    /\ LET fpReminder == reminderFingerprint(pass.phase, decision)
           fpChange == changeFingerprint(pass.phase, decision, obs)
           interval == reminderInterval(primaryReason(decision))
       IN /\ DOMAIN entries = {fpReminder, fpChange}
          /\ clock - (entries[fpReminder] - interval) < ChangeInterval
          /\ entries[fpChange] = clock + ChangeInterval


(***************************************************************************)
(* Further claims about the limiter *)
(***************************************************************************)

\* C36: a call of Allow with a positive interval returns false exactly when
\* the table holds an instant for its fingerprint and now is before it,
\* whatever the interval; such a call leaves the whole table as it was, from
\* Lock to return, and does not enter prune, even when the table holds
\* expired entries.
C36_BlockedCallLeavesTable ==
    [][\A p \in Procs :
          /\ (call[p].pc = "idle" /\ call'[p].pc # "idle"
                /\ call'[p].interval > 0) =>
                /\ call'[p].res = ~Blocked(entries, call'[p].fp, call'[p].now)
                /\ ~call'[p].res =>
                      /\ entries' = entries
                      /\ call'[p].pc = "ret"
          /\ (call[p].pc = "ret" /\ ~call[p].res) =>
                /\ entries' = entries
                /\ call'[p].pc \in {"ret", "idle"}]_vars

\* A call was blocked while the table, at its capacity, held an entry that
\* had expired at the call's now: the call is about to return false and the
\* expired entry is still there.
C36_Witness ==
    \E p \in Procs :
        /\ call[p].pc = "ret"
        /\ ~call[p].res
        /\ call[p].interval > 0
        /\ mutex = p
        /\ Cardinality(DOMAIN entries) = size
        /\ call[p].fp \in DOMAIN entries
        /\ call[p].now < entries[call[p].fp]
        /\ \E f \in DOMAIN entries : entries[f] <= call[p].now


----------------------------------------------------------------------------
(* Allow called by several goroutines at once, for one fingerprint, with    *)
(* the same now and the same positive interval.  The lookup and the store   *)
(* are separate steps, so that a missing lock would let them interleave.    *)

Racers == {"g1", "g2", "g3"}

\* The instants a table can hold: each is the now of a grant plus its interval.
StoredTimes == 1..(MaxTime + MaxInterval)

\* The tables a limiter of capacity sz can hold between two calls.
TablesWithin(sz) ==
    UNION {[S -> StoredTimes] : S \in {T \in SUBSET Fingerprints : Cardinality(T) <= sz}}

\* The frame of a call that has been made and has not taken the lock yet.
Called(fp, now, interval) ==
    [pc |-> "called", fp |-> fp, now |-> now, interval |-> interval,
     ok |-> FALSE, nextAllowed |-> 0, res |-> FALSE, pruned |-> FALSE]

\* Mutant: Lock does not wait for the goroutine that holds the mutex.
RaceLockNotExclusive(p) ==
    /\ call[p].pc = "called"
    /\ mutex' = p
    /\ call' = [call EXCEPT ![p] =
          [@ EXCEPT !.ok = call[p].fp \in DOMAIN entries,
                    !.nextAllowed = IF call[p].fp \in DOMAIN entries
                                    THEN entries[call[p].fp] ELSE 0,
                    !.pc = IF Blocked(entries, call[p].fp, call[p].now)
                           THEN "ret" ELSE "store",
                    !.res = FALSE]]
    /\ UNCHANGED <<size, entries>>

\* l.mu.Lock() and the lookup: nextAllowed, ok := l.entries[fingerprint];
\* a blocked call goes to its return with false.
RaceLock(p) ==
    /\ call[p].pc = "called"
    /\ mutex = Free
    /\ mutex' = p
    /\ call' = [call EXCEPT ![p] =
          [@ EXCEPT !.ok = call[p].fp \in DOMAIN entries,
                    !.nextAllowed = IF call[p].fp \in DOMAIN entries
                                    THEN entries[call[p].fp] ELSE 0,
                    !.pc = IF Blocked(entries, call[p].fp, call[p].now)
                           THEN "ret" ELSE "store",
                    !.res = FALSE]]
    /\ UNCHANGED <<size, entries>>

\* l.entries[fingerprint] = now.Add(interval), then the size test.
RaceStore(p) ==
    /\ call[p].pc = "store"
    /\ entries' = Store(entries, call[p].fp, call[p].now, call[p].interval)
    /\ call' = [call EXCEPT ![p] =
          [@ EXCEPT !.pc = IF OverSize(entries', size) THEN "prune" ELSE "ret",
                    !.pruned = OverSize(entries', size),
                    !.res = TRUE]]
    /\ UNCHANGED <<size, mutex>>

\* return with the deferred Unlock; the returned value stays with the caller.
RaceReturn(p) ==
    /\ call[p].pc = "ret"
    /\ call' = [call EXCEPT ![p].pc = "done"]
    /\ mutex' = IF mutex = p THEN Free ELSE mutex
    /\ UNCHANGED <<size, entries>>

\* Every goroutine has made its call, with the same arguments, on a limiter
\* whose table earlier calls have filled within its capacity.
RaceInit ==
    /\ NoTargets
    /\ NoFanout
    /\ NoConditionSet
    /\ NoController
    /\ size \in {NewLimiter(n) : n \in 1..MaxSize}
    /\ entries \in TablesWithin(size)
    /\ mutex = Free
    /\ \E fp \in Fingerprints, now \in Times, interval \in 1..MaxInterval :
          call = [p \in Racers |-> Called(fp, now, interval)]
    /\ watched = ""
    /\ granted = None
    /\ solo = << >>

RaceNext ==
    \/ \E p \in Racers : RaceLock(p) /\ UNCHANGED <<histVars, offLimiter>>
    \/ \E p \in Racers : RaceStore(p) /\ UNCHANGED <<histVars, offLimiter>>
    \/ \E p \in Racers : PruneExpired(p) /\ UNCHANGED <<histVars, offLimiter>>
    \/ \E p \in Racers : EvictOne(p) /\ UNCHANGED <<histVars, offLimiter>>
    \/ \E p \in Racers : RaceReturn(p) /\ UNCHANGED <<histVars, offLimiter>>

SpecRace == RaceInit /\ [][RaceNext]_vars

\* The calls that returned true, or are about to.
RaceGrants == {p \in Racers : call[p].res}

\* Every call has returned and none of them found the table over its capacity.
RaceOverWithinCapacity ==
    \A p \in Racers : call[p].pc = "done" /\ ~call[p].pruned

\* Every lookup found the same stored instant, after now.
RaceAllBlocked ==
    \A p \in Racers :
        /\ call[p].ok
        /\ Before(call[p].now, call[p].nextAllowed)
        /\ call[p].fp \in DOMAIN entries
        /\ entries[call[p].fp] = call[p].nextAllowed

\* C37 as stated: once all the concurrent calls have returned, with the
\* table within its capacity, exactly one of them has returned true.
C37_ExactlyOneGrant ==
    RaceOverWithinCapacity => Cardinality(RaceGrants) = 1

\* C37: between the lookup and the return of one call no other call is past
\* its Lock, and the table is written only by the holder of the mutex; as
\* long as no call found the table over its capacity at most one call is
\* granted; once all have returned exactly one has returned true, unless the
\* fingerprint was blocked at now before the calls, and then none has and the
\* stored instant is the one every lookup found.
C37_OneGrantUnlessBlocked ==
    /\ \A p, q \in Racers :
          (call[p].pc \in {"store", "prune", "evict", "ret"}
             /\ call[q].pc \in {"store", "prune", "evict", "ret"}) => p = q
    /\ \A p \in Racers :
          call[p].pc \in {"store", "prune", "evict", "ret"} => mutex = p
    /\ (\A p \in Racers : ~call[p].pruned) => Cardinality(RaceGrants) <= 1
    /\ RaceOverWithinCapacity =>
          \/ Cardinality(RaceGrants) = 1 /\ ~RaceAllBlocked
          \/ Cardinality(RaceGrants) = 0 /\ RaceAllBlocked

\* All the calls have returned, one with true and the others with false
\* after finding the instant the first one stored.
C37_Witness ==
    /\ RaceOverWithinCapacity
    /\ Cardinality(RaceGrants) = 1
    /\ \E p \in Racers : \A q \in Racers \ {p} :
          /\ call[p].res
          /\ ~call[q].res
          /\ call[q].nextAllowed = call[p].now + call[p].interval


----------------------------------------------------------------------------
(* The limiter called again and again while the clock advances: every call  *)
(* is given the current instant, as the controller's Clock.Now() does.       *)

\* The last instant of the clock; every instant stored by a grant made up to
\* MaxTime lies within it.
LiveHorizon == MaxTime + MaxInterval

offLive ==
    <<fanVars, condVars, identity, recorder, passes, pass, ret, frame, tgtVars>>

\* Time passes between two steps.
LiveTick ==
    /\ clock < LiveHorizon
    /\ clock' = clock + 1
    /\ UNCHANGED <<limVars, histVars, offLive>>

\* Allow(fp, now, interval) with now read from the clock.
LiveCall(fp, interval) ==
    /\ \/ AllowNoState(Caller, fp, clock, interval)
       \/ AllowEnter(Caller, fp, clock, interval)
    /\ UNCHANGED <<histVars, clock, offLive>>

\* The steps that bring a call to its return.
LiveFinish ==
    /\ \/ PruneExpired(Caller)
       \/ EvictOne(Caller)
       \/ AllowReturn(Caller)
    /\ UNCHANGED <<histVars, clock, offLive>>

LiveInit ==
    /\ NoTargets
    /\ NoFanout
    /\ NoConditionSet
    /\ NoController
    /\ size \in {NewLimiter(n) : n \in 1..MaxSize}
    /\ entries = << >>
    /\ mutex = Free
    /\ call = [p \in Procs |-> Idle]
    /\ watched \in Fingerprints
    /\ granted = None
    /\ solo = << >>

LiveNext ==
    \/ LiveTick
    \/ \E fp \in Fingerprints, interval \in Intervals : LiveCall(fp, interval)
    \/ LiveFinish

\* The clock advances, a call that was entered runs to its return, and the
\* caller keeps asking for the watched fingerprint with a positive interval.
SpecLive ==
    /\ LiveInit
    /\ [][LiveNext]_vars
    /\ WF_vars(LiveTick)
    /\ WF_vars(LiveFinish)
    /\ SF_vars(\E interval \in 1..MaxInterval : LiveCall(watched, interval))

\* Between two calls the table holds the instant n for the watched fingerprint.
StoredFor(n) ==
    /\ call[Caller].pc = "idle"
    /\ watched \in DOMAIN entries
    /\ entries[watched] = n

\* A call for the watched fingerprint with a positive interval is returning true.
GrantReturning ==
    /\ call[Caller].pc = "ret"
    /\ call[Caller].fp = watched
    /\ call[Caller].interval > 0
    /\ call[Caller].res

\* C38, first part: a call with a positive interval whose now has reached the
\* instant stored for its fingerprint returns true.
C38_GrantedOnceReached ==
    [][(/\ Enters(Caller)
        /\ call'[Caller].interval > 0
        /\ call'[Caller].fp \in DOMAIN entries
        /\ entries[call'[Caller].fp] <= call'[Caller].now)
          => call'[Caller].res]_vars

\* C38: no fingerprint is blocked forever.  A call with a positive interval
\* made at or after the stored instant returns true, and when the instants
\* passed to the successive calls reach the stored instant n a call for the
\* fingerprint is eventually granted, however many calls were blocked before.
C38_NotBlockedForever ==
    /\ C38_GrantedOnceReached
    /\ \A n \in 1..LiveHorizon : StoredFor(n) ~> GrantReturning

\* A call for the watched fingerprint is granted at the very instant that was
\* stored for it by an earlier grant.
C38_Witness ==
    /\ GrantReturning
    /\ call[Caller].ok
    /\ call[Caller].nextAllowed = call[Caller].now
    /\ call[Caller].now >= 1


(***************************************************************************)
(* Further claims about the condition set *)
(***************************************************************************)

\* The types whose live status is the status of the snapshot taken when the
\* set was built.
BackAtSnapshotStatus ==
    {t \in DOMAIN cs.conditions \cap DOMAIN OriginalByType(cs) :
        cs.conditions[t].Status = OriginalByType(cs)[t].Status}

\* C39 as stated: after any sequence of Set calls every condition whose status
\* equals its status in the snapshot carries the snapshot's
\* LastTransitionTime, also when the status was changed and changed back.
C39_SnapshotStatusKeepsTime ==
    \A t \in BackAtSnapshotStatus :
        cs.conditions[t].LastTransitionTime =
            OriginalByType(cs)[t].LastTransitionTime

\* C39: a Set call that leaves the status of a condition as it was leaves its
\* LastTransitionTime as it was, so a sequence of Set calls none of which
\* changes the status keeps the snapshot's time; a Set call that changes the
\* status stores the reconcile time, so a condition whose status was changed
\* and changed back carries the reconcile time; at any point a condition
\* whose status is the snapshot's carries one of the two.
C39_TimeKeptWhileStatusKept ==
    /\ [](\A t \in BackAtSnapshotStatus :
            cs.conditions[t].LastTransitionTime \in
                {OriginalByType(cs)[t].LastTransitionTime, cs.reconcileTime})
    /\ [][\A t \in DOMAIN cs.conditions :
            /\ t \in DOMAIN cs'.conditions
            /\ cs'.conditions[t].LastTransitionTime =
                  IF cs'.conditions[t].Status = cs.conditions[t].Status
                  THEN cs.conditions[t].LastTransitionTime
                  ELSE cs.reconcileTime]_vars

\* Two Set calls were made on one type of the snapshot, both with the
\* snapshot's status and the second with a new message, and the condition
\* still carries the snapshot's time, older than the pass.
C39_Witness ==
    /\ sets = 2
    /\ lastSet.Type \in BackAtSnapshotStatus
    /\ lastSet.prev # None
    /\ lastSet.prev.Status = lastSet.Status
    /\ lastSet.prev.Message # lastSet.Message
    /\ lastSet.prev.Reason # OriginalByType(cs)[lastSet.Type].Reason
    /\ cs.conditions[lastSet.Type].LastTransitionTime =
          OriginalByType(cs)[lastSet.Type].LastTransitionTime
    /\ cs.conditions[lastSet.Type].LastTransitionTime # cs.reconcileTime

\* The status of a type was changed by one Set and changed back by the next:
\* the condition carries the reconcile time, not the snapshot's.
C39_ChangedBack ==
    /\ sets = 2
    /\ lastSet.Type \in BackAtSnapshotStatus
    /\ lastSet.prev # None
    /\ lastSet.prev.Status # lastSet.Status
    /\ cs.conditions[lastSet.Type].LastTransitionTime = cs.reconcileTime
    /\ OriginalByType(cs)[lastSet.Type].LastTransitionTime # cs.reconcileTime


\* C40: when a call of Allow with a positive interval is about to return true
\* the table is not empty; an iteration of the eviction loop deletes exactly
\* one entry and leaves the others as they were, at least one of them, and
\* the loop ends with as many entries as the capacity.
C40_EvictionLeavesSurvivor ==
    /\ [](\A p \in Procs :
            (call[p].pc = "ret" /\ call[p].res /\ call[p].interval > 0)
               => DOMAIN entries # {})
    /\ [][\A p \in Procs :
            (call[p].pc = "evict" /\ entries' # entries) =>
               /\ DOMAIN entries' # {}
               /\ DOMAIN entries' \subseteq DOMAIN entries
               /\ Cardinality(DOMAIN entries') = Cardinality(DOMAIN entries) - 1
               /\ \A f \in DOMAIN entries' : entries'[f] = entries[f]
               /\ call'[p].pc = "ret" =>
                     Cardinality(DOMAIN entries') = size]_vars

\* A granted call is about to return after the eviction loop deleted the very
\* entry it had stored, which had not expired: the table still holds as many
\* entries as its capacity.
C40_Witness ==
    \E p \in Procs :
        /\ call[p].pc = "ret"
        /\ call[p].res
        /\ call[p].interval > 0
        /\ mutex = p
        /\ call[p].fp \notin DOMAIN entries
        /\ Cardinality(DOMAIN entries) = size
        /\ \A f \in DOMAIN entries : call[p].now < entries[f]

============================================================================
